---- MODULE Spec2Model ----
(***************************************************************************)
(* Model of the Yacht-auction decision engines of this repository:         *)
(*   src/1650.py                         (session "1650")                  *)
(*   src/testing-tool-yacht-cli/test2.py (session "test2")                 *)
(* A session is one Game object driven by the command loop of main():      *)
(* ROLL, GET, SCORE, SET.  Dice pools are sequences (the code depends on   *)
(* list order), a category board is a function 0..11 -> score or None.     *)
(***************************************************************************)
EXTENDS Integers, Sequences, FiniteSets, TLC

(***************************************************************************)
(* DiceRule enum and the None marker of an open category.                  *)
(***************************************************************************)
ONE == 0
TWO == 1
THREE == 2
FOUR == 3
FIVE == 4
SIX == 5
CHOICE == 6
FOUR_OF_A_KIND == 7
FULL_HOUSE == 8
SMALL_STRAIGHT == 9
LARGE_STRAIGHT == 10
YACHT == 11
None == -1

Rules == 0..11
NumberRules == 0..5

(***************************************************************************)
(* Python list primitives.                                                 *)
(***************************************************************************)
Min2(a, b) == IF a <= b THEN a ELSE b
Max2(a, b) == IF a >= b THEN a ELSE b

\* list.count(v)
Count(s, v) == Cardinality({i \in DOMAIN s : s[i] = v})

\* v in list
Has(s, v) == \E i \in DOMAIN s : s[i] = v

\* [v] * n
Rep(v, n) == [i \in 1..n |-> v]

\* list[:n]
Take(s, n) == SubSeq(s, 1, Min2(n, Len(s)))

\* list.remove(v): drops the first occurrence (the caller has checked v in list)
Remove(s, v) ==
    LET i == CHOOSE k \in DOMAIN s : s[k] = v /\ \A j \in 1..(k - 1) : s[j] # v
    IN  SubSeq(s, 1, i - 1) \o SubSeq(s, i + 1, Len(s))

\* n successive list.remove(v)
RECURSIVE RemoveN(_, _, _)
RemoveN(s, v, n) == IF n = 0 THEN s ELSE RemoveN(Remove(s, v), v, n - 1)

\* sum(list), for lists over 0..6
SumSeq(s) ==
    Count(s, 1) + 2 * Count(s, 2) + 3 * Count(s, 3)
      + 4 * Count(s, 4) + 5 * Count(s, 5) + 6 * Count(s, 6)

\* sorted(list) left out: the list as it is
unsorted(s) == s

\* sorted(list), for lists over 0..6
SortAsc(s) ==
    Rep(0, Count(s, 0)) \o Rep(1, Count(s, 1)) \o Rep(2, Count(s, 2))
      \o Rep(3, Count(s, 3)) \o Rep(4, Count(s, 4)) \o Rep(5, Count(s, 5))
      \o Rep(6, Count(s, 6))

\* sorted(list, reverse=True)
SortDesc(s) ==
    Rep(6, Count(s, 6)) \o Rep(5, Count(s, 5)) \o Rep(4, Count(s, 4))
      \o Rep(3, Count(s, 3)) \o Rep(2, Count(s, 2)) \o Rep(1, Count(s, 1))
      \o Rep(0, Count(s, 0))

\* the hand is contained in the pool, counting multiplicity
SubBag(hand, pool) == \A v \in 0..6 : Count(hand, v) <= Count(pool, v)

(***************************************************************************)
(* GameState of 1650.py (main.py carries the same class, lines 41-153).    *)
(***************************************************************************)
GameState == [dice |-> <<>>, rule_score |-> [r \in Rules |-> None], bid_score |-> 0]

SumScores(rs, lo, hi) ==
    LET RECURSIVE Acc(_)
        Acc(r) == IF r > hi THEN 0
                  ELSE (IF rs[r] # None THEN rs[r] ELSE 0) + Acc(r + 1)
    IN  Acc(lo)

\* get_total_score with the bonus granted only above 63000
get_total_score_strict(st) ==
    LET basic == SumScores(st.rule_score, 0, 5)
        bonus == IF basic > 63000 THEN 35000 ELSE 0
        combination == SumScores(st.rule_score, 6, 11)
    IN  basic + bonus + combination + st.bid_score

get_total_score(st) ==
    LET basic == SumScores(st.rule_score, 0, 5)
        bonus == IF basic >= 63000 THEN 35000 ELSE 0
        combination == SumScores(st.rule_score, 6, 11)
    IN  basic + bonus + combination + st.bid_score

\* bid with the two branches exchanged
bid_reversed(st, is_successful, amount) ==
    IF is_successful
    THEN [st EXCEPT !.bid_score = @ + amount]
    ELSE [st EXCEPT !.bid_score = @ - amount]

bid(st, is_successful, amount) ==
    IF is_successful
    THEN [st EXCEPT !.bid_score = @ - amount]
    ELSE [st EXCEPT !.bid_score = @ + amount]

add_dice(st, new_dice) == [st EXCEPT !.dice = @ \o new_dice]

\* calculate_score with LARGE_STRAIGHT granted for four values in a row
calculate_score_run4(rule, dice) ==
    IF rule \in NumberRules THEN (rule + 1) * Count(dice, rule + 1) * 1000
    ELSE IF rule = CHOICE THEN SumSeq(dice) * 1000
    ELSE IF rule = FOUR_OF_A_KIND THEN
        IF \E i \in 1..6 : Count(dice, i) >= 4 THEN SumSeq(dice) * 1000 ELSE 0
    ELSE IF rule = FULL_HOUSE THEN
        IF /\ \E i \in 1..6 : Count(dice, i) = 2 \/ Count(dice, i) = 5
           /\ \E i \in 1..6 : Count(dice, i) = 3 \/ Count(dice, i) = 5
        THEN SumSeq(dice) * 1000 ELSE 0
    ELSE IF rule = SMALL_STRAIGHT THEN
        IF \E lo \in 1..3 : \A v \in lo..(lo + 3) : Has(dice, v) THEN 15000 ELSE 0
    ELSE IF rule = LARGE_STRAIGHT THEN
        IF \E lo \in 1..3 : \A v \in lo..(lo + 3) : Has(dice, v) THEN 30000 ELSE 0
    ELSE IF \E i \in 1..6 : Count(dice, i) = 5 THEN 50000 ELSE 0

\* calculate_score with SMALL_STRAIGHT granted for 1234 and 3456 only
calculate_score_no2345(rule, dice) ==
    IF rule \in NumberRules THEN (rule + 1) * Count(dice, rule + 1) * 1000
    ELSE IF rule = CHOICE THEN SumSeq(dice) * 1000
    ELSE IF rule = FOUR_OF_A_KIND THEN
        IF \E i \in 1..6 : Count(dice, i) >= 4 THEN SumSeq(dice) * 1000 ELSE 0
    ELSE IF rule = FULL_HOUSE THEN
        IF /\ \E i \in 1..6 : Count(dice, i) = 2 \/ Count(dice, i) = 5
           /\ \E i \in 1..6 : Count(dice, i) = 3 \/ Count(dice, i) = 5
        THEN SumSeq(dice) * 1000 ELSE 0
    ELSE IF rule = SMALL_STRAIGHT THEN
        IF \E lo \in {1, 3} : \A v \in lo..(lo + 3) : Has(dice, v) THEN 15000 ELSE 0
    ELSE IF rule = LARGE_STRAIGHT THEN
        IF \E lo \in 1..2 : \A v \in lo..(lo + 4) : Has(dice, v) THEN 30000 ELSE 0
    ELSE IF \E i \in 1..6 : Count(dice, i) = 5 THEN 50000 ELSE 0

\* calculate_score with YACHT granted for four equal dice
calculate_score_yacht4(rule, dice) ==
    IF rule \in NumberRules THEN (rule + 1) * Count(dice, rule + 1) * 1000
    ELSE IF rule = CHOICE THEN SumSeq(dice) * 1000
    ELSE IF rule = FOUR_OF_A_KIND THEN
        IF \E i \in 1..6 : Count(dice, i) >= 4 THEN SumSeq(dice) * 1000 ELSE 0
    ELSE IF rule = FULL_HOUSE THEN
        IF /\ \E i \in 1..6 : Count(dice, i) = 2 \/ Count(dice, i) = 5
           /\ \E i \in 1..6 : Count(dice, i) = 3 \/ Count(dice, i) = 5
        THEN SumSeq(dice) * 1000 ELSE 0
    ELSE IF rule = SMALL_STRAIGHT THEN
        IF \E lo \in 1..3 : \A v \in lo..(lo + 3) : Has(dice, v) THEN 15000 ELSE 0
    ELSE IF rule = LARGE_STRAIGHT THEN
        IF \E lo \in 1..2 : \A v \in lo..(lo + 4) : Has(dice, v) THEN 30000 ELSE 0
    ELSE IF \E i \in 1..6 : Count(dice, i) >= 4 THEN 50000 ELSE 0

calculate_score(rule, dice) ==
    IF rule \in NumberRules THEN (rule + 1) * Count(dice, rule + 1) * 1000
    ELSE IF rule = CHOICE THEN SumSeq(dice) * 1000
    ELSE IF rule = FOUR_OF_A_KIND THEN
        IF \E i \in 1..6 : Count(dice, i) >= 4 THEN SumSeq(dice) * 1000 ELSE 0
    ELSE IF rule = FULL_HOUSE THEN
        LET pair == \E i \in 1..6 : Count(dice, i) = 2 \/ Count(dice, i) = 5
            triple == \E i \in 1..6 : Count(dice, i) = 3 \/ Count(dice, i) = 5
        IN  IF pair /\ triple THEN SumSeq(dice) * 1000 ELSE 0
    ELSE IF rule = SMALL_STRAIGHT THEN
        IF \/ \A v \in 1..4 : Has(dice, v)
           \/ \A v \in 2..5 : Has(dice, v)
           \/ \A v \in 3..6 : Has(dice, v)
        THEN 15000 ELSE 0
    ELSE IF rule = LARGE_STRAIGHT THEN
        IF \/ \A v \in 1..5 : Has(dice, v)
           \/ \A v \in 2..6 : Has(dice, v)
        THEN 30000 ELSE 0
    ELSE IF \E i \in 1..6 : Count(dice, i) = 5 THEN 50000 ELSE 0

\* the loop of use_dice: a die that is not in the pool is skipped
RECURSIVE RemovePresent(_, _)
RemovePresent(pool, hand) ==
    IF hand = <<>> THEN pool
    ELSE IF Has(pool, Head(hand))
         THEN RemovePresent(Remove(pool, Head(hand)), Tail(hand))
         ELSE RemovePresent(pool, Tail(hand))

\* use_dice without its assertion
use_dice_unchecked(st, p) ==
    [exc |-> "",
     st  |-> [st EXCEPT !.dice = RemovePresent(st.dice, p.dice),
                        !.rule_score[p.rule] = calculate_score(p.rule, p.dice)]]

\* use_dice returns the new state and the exception raised, "" for none
use_dice(st, p) ==
    IF st.rule_score[p.rule] # None
    THEN [exc |-> "AssertionError", st |-> st]
    ELSE [exc |-> "",
          st  |-> [st EXCEPT !.dice = RemovePresent(st.dice, p.dice),
                             !.rule_score[p.rule] = calculate_score(p.rule, p.dice)]]

(***************************************************************************)
(* Game of 1650.py.  A Game value g is the record                          *)
(*   [my_state, opp_state, current_round, opponent_bids,                   *)
(*    opponent_yacht_completed, my_yacht_completed].                       *)
(***************************************************************************)
Game ==
    [my_state |-> GameState, opp_state |-> GameState, current_round |-> 0,
     opponent_bids |-> <<>>, opponent_yacht_completed |-> FALSE,
     my_yacht_completed |-> FALSE]

Bid(group, amount) == [group |-> group, amount |-> amount]
DicePut(rule, dice) == [rule |-> rule, dice |-> dice]

MinOf(S) == CHOOSE x \in S : \A y \in S : x <= y
MaxOf(S) == CHOOSE x \in S : \A y \in S : x >= y
BidValues(ob) == {ob[k] : k \in DOMAIN ob}

get_max_duplicate_count(g, dice_group) ==
    LET rs == g.my_state.rule_score
        high_rules_completed ==
            rs[SMALL_STRAIGHT] # None /\ rs[LARGE_STRAIGHT] # None /\ rs[YACHT] # None
        cand == {n \in 1..6 : rs[n - 1] = None}
        hit == {n \in cand : Count(dice_group, n) > 0}
    IN  IF high_rules_completed
        THEN (IF hit = {} THEN 0 ELSE Count(dice_group, MaxOf(hit)))
        ELSE MaxOf({0} \cup {Count(dice_group, n) : n \in cand})

save_opponent_bid(g, round_num, bid_amount) ==
    [g EXCEPT !.opponent_bids =
        [k \in (DOMAIN @) \cup {round_num} |-> IF k = round_num THEN bid_amount ELSE @[k]]]

check_opponent_yacht_completion(g) ==
    IF g.opp_state.rule_score[YACHT] # None /\ g.opp_state.rule_score[YACHT] > 0
    THEN [g EXCEPT !.opponent_yacht_completed = TRUE]
    ELSE g

check_my_yacht_completion(g) ==
    IF g.my_state.rule_score[YACHT] # None /\ g.my_state.rule_score[YACHT] > 0
    THEN [g EXCEPT !.my_yacht_completed = TRUE]
    ELSE g

\* the result is <<>> for None, else <<group, amount>>
should_block_yacht(g, a, b) ==
    LET opp_dice == g.opp_state.dice
        four == {i \in 1..6 : Count(opp_dice, i) >= 4}
    IN  IF g.opponent_yacht_completed THEN <<>>
        ELSE IF Len(opp_dice) < 4 THEN <<>>
        ELSE IF four = {} THEN <<>>
        ELSE LET n == MinOf(four)
                 count_a == Count(a, n)
                 count_b == Count(b, n)
             IN  IF (count_a > 0 /\ count_b = 0) \/ (count_a = 0 /\ count_b > 0)
                 THEN <<(IF count_a > 0 THEN "A" ELSE "B"), 5001>>
                 ELSE <<>>

calculate_rule_potential_score(dice, rule) ==
    LET has == [v \in 0..6 |-> Has(dice, v)]
    IN  IF rule \in NumberRules THEN (rule + 1) * Count(dice, rule + 1) * 1000
        ELSE IF rule = CHOICE THEN SumSeq(dice) * 1000
        ELSE IF rule = FOUR_OF_A_KIND THEN
            IF \E i \in 1..6 : Count(dice, i) >= 4 THEN SumSeq(dice) * 1000 ELSE 0
        ELSE IF rule = FULL_HOUSE THEN
            LET has_pair == \E i \in 1..6 : Count(dice, i) = 2 \/ Count(dice, i) = 5
                has_triple == \E i \in 1..6 : Count(dice, i) = 3 \/ Count(dice, i) = 5
            IN  IF has_pair /\ has_triple THEN SumSeq(dice) * 1000 ELSE 0
        ELSE IF rule = SMALL_STRAIGHT THEN
            IF \/ has[1] /\ has[2] /\ has[3] /\ has[4]
               \/ has[2] /\ has[3] /\ has[4] /\ has[5]
               \/ has[3] /\ has[4] /\ has[5] /\ has[6]
            THEN 15000 ELSE 0
        ELSE IF rule = LARGE_STRAIGHT THEN
            IF \/ has[1] /\ has[2] /\ has[3] /\ has[4] /\ has[5]
               \/ has[2] /\ has[3] /\ has[4] /\ has[5] /\ has[6]
            THEN 30000 ELSE 0
        ELSE IF rule = YACHT THEN
            IF \E i \in 1..6 : Count(dice, i) = 5 THEN 50000 ELSE 0
        ELSE 0

\* calculate_strategic_bid_amount that bids above the highest opponent bid
calculate_strategic_bid_amount_highest(g, a, b, selected_group) ==
    LET selected_dice == IF selected_group = "A" THEN a ELSE b
        max_count == get_max_duplicate_count(g, selected_dice)
        r == g.current_round
        ob == g.opponent_bids
        min_opponent_bid == MinOf(BidValues(ob))
        max_opponent_bid == MaxOf(BidValues(ob))
        option2 == Min2(9999, Max2(0, max_opponent_bid + 1))
        combined_max_count ==
            get_max_duplicate_count(g, g.my_state.dice \o selected_dice)
    IN  IF r <= 2 THEN
            {IF max_count = 5 THEN 7999
             ELSE IF max_count = 4 THEN 3001
             ELSE IF max_count = 3 THEN 1001
             ELSE IF max_count = 2 THEN 98
             ELSE IF SumSeq(selected_dice) >= 20 THEN 201 ELSE 1}
        ELSE IF r = 3 THEN {IF max_count >= 3 THEN 999 ELSE 0}
        ELSE IF r <= 8 THEN
            IF DOMAIN ob = {} THEN {0}
            ELSE IF g.my_yacht_completed THEN {0, option2}
            ELSE IF combined_max_count = 3 THEN {option2}
            ELSE IF combined_max_count = 4
                 THEN {Min2(9999, Max2(0, max_opponent_bid - 1))}
            ELSE {0}
        ELSE IF DOMAIN ob = {} THEN {0}
        ELSE {0, option2}

\* calculate_strategic_bid_amount that also chooses at random in the third turn
calculate_strategic_bid_amount_coin(g, a, b, selected_group) ==
    LET selected_dice == IF selected_group = "A" THEN a ELSE b
        max_count == get_max_duplicate_count(g, selected_dice)
        r == g.current_round
        ob == g.opponent_bids
        min_opponent_bid == MinOf(BidValues(ob))
        max_opponent_bid == MaxOf(BidValues(ob))
        option2 == Min2(9999, Max2(0, min_opponent_bid + 1))
        combined_max_count ==
            get_max_duplicate_count(g, g.my_state.dice \o selected_dice)
    IN  IF r <= 2 THEN
            {IF max_count = 5 THEN 7999
             ELSE IF max_count = 4 THEN 3001
             ELSE IF max_count = 3 THEN 1001
             ELSE IF max_count = 2 THEN 98
             ELSE IF SumSeq(selected_dice) >= 20 THEN 201 ELSE 1}
        ELSE IF r = 3 THEN {999, 0}
        ELSE IF r <= 8 THEN
            IF DOMAIN ob = {} THEN {0}
            ELSE IF g.my_yacht_completed THEN {0, option2}
            ELSE IF combined_max_count = 3 THEN {option2}
            ELSE IF combined_max_count = 4
                 THEN {Min2(9999, Max2(0, max_opponent_bid - 1))}
            ELSE {0}
        ELSE IF DOMAIN ob = {} THEN {0}
        ELSE {0, option2}

\* the set of amounts the call can return (random.choice picks one of two)
calculate_strategic_bid_amount(g, a, b, selected_group) ==
    LET selected_dice == IF selected_group = "A" THEN a ELSE b
        max_count == get_max_duplicate_count(g, selected_dice)
        r == g.current_round
        ob == g.opponent_bids
        min_opponent_bid == MinOf(BidValues(ob))
        max_opponent_bid == MaxOf(BidValues(ob))
        option2 == Min2(9999, Max2(0, min_opponent_bid + 1))
        combined_max_count ==
            get_max_duplicate_count(g, g.my_state.dice \o selected_dice)
    IN  IF r <= 2 THEN
            {IF max_count = 5 THEN 7999
             ELSE IF max_count = 4 THEN 3001
             ELSE IF max_count = 3 THEN 1001
             ELSE IF max_count = 2 THEN 98
             ELSE IF SumSeq(selected_dice) >= 20 THEN 201 ELSE 1}
        ELSE IF r = 3 THEN {IF max_count >= 3 THEN 999 ELSE 0}
        ELSE IF r <= 8 THEN
            IF DOMAIN ob = {} THEN {0}
            ELSE IF g.my_yacht_completed THEN {0, option2}
            ELSE IF combined_max_count = 3 THEN {option2}
            ELSE IF combined_max_count = 4
                 THEN {Min2(9999, Max2(0, max_opponent_bid - 1))}
            ELSE {0}
        ELSE IF DOMAIN ob = {} THEN {0}
        ELSE {0, option2}

\* the set of bids the call can return
calculate_bid(g, a, b) ==
    LET block_result == should_block_yacht(g, a, b)
        max_count_a == get_max_duplicate_count(g, a)
        max_count_b == get_max_duplicate_count(g, b)
        group == IF max_count_a >= max_count_b THEN "A" ELSE "B"
    IN  IF block_result # <<>>
        THEN {Bid(block_result[1], block_result[2])}
        ELSE {Bid(group, amount) : amount \in calculate_strategic_bid_amount(g, a, b, group)}

should_use_rule_strategically(g, rule, score) ==
    LET r == g.current_round
    IN  IF rule = YACHT THEN score > 0
        ELSE IF rule = LARGE_STRAIGHT THEN score > 0
        ELSE IF rule = SMALL_STRAIGHT THEN (IF score > 0 THEN TRUE ELSE r <= 6)
        ELSE IF rule = FOUR_OF_A_KIND THEN score > 0
        ELSE IF rule = FULL_HOUSE THEN
            (IF r <= 6 THEN score > 0 /\ r >= 4 ELSE score > 0)
        ELSE IF rule = CHOICE THEN r >= 10 /\ score > 0
        ELSE IF score >= 3000 THEN TRUE
        ELSE IF score >= 1000 THEN (IF r <= 4 THEN FALSE ELSE TRUE)
        ELSE r >= 8

\* the last lines of find_optimal_dice_for_rule: no combination for the rule
default_dice(g, rule) ==
    LET my_dice == g.my_state.dice
        dice == IF Len(my_dice) >= 5 THEN Take(my_dice, 5) ELSE Rep(0, 5)
    IN  [dice |-> dice, score |-> calculate_rule_potential_score(dice, rule)]

\* ONE..SIX: as many target dice as possible, then 6s, then singletons, then the rest
optimal_number(g, rule) ==
    LET my_dice == g.my_state.dice
        rs == g.my_state.rule_score
        target_number == rule + 1
        target_count == Count(my_dice, target_number)
        high_rules_available == rs[FOUR_OF_A_KIND] = None \/ rs[FULL_HOUSE] = None
        straights_completed == rs[LARGE_STRAIGHT] # None /\ rs[SMALL_STRAIGHT] # None
        \* while len(dice) < 5: dice.append(0)
        Pad(dice) == dice \o Rep(0, 5 - Len(dice))
        \* the other dice, sorted once both straights are filled
        Others(dice, temp_dice) ==
            Pad(dice \o Take(IF straights_completed THEN SortAsc(temp_dice) ELSE temp_dice,
                             5 - Len(dice)))
        Picked(dice, temp_dice, picked) ==
            Others(dice \o picked, RemovePresent(temp_dice, picked))
        \* the values held once, in ascending order
        Singles(dice, counted, temp_dice) ==
            LET IsUnique(v) == Count(counted, v) = 1 /\ Has(temp_dice, v)
            IN  Picked(dice, temp_dice,
                       Take(SelectSeq(<<0, 1, 2, 3, 4, 5, 6>>, IsUnique), 5 - Len(dice)))
        \* 6s while FOUR_OF_A_KIND or FULL_HOUSE is open
        Sixes(dice, temp_dice, k) ==
            Singles(dice \o Rep(6, k), temp_dice, RemoveN(temp_dice, 6, k))
        Targets(dice, temp_dice) ==
            Sixes(dice, temp_dice,
                  IF high_rules_available THEN Min2(5 - Len(dice), Count(temp_dice, 6)) ELSE 0)
        Found(dice) == [dice |-> dice, score |-> calculate_rule_potential_score(dice, rule)]
        First(n) == Found(Targets(Rep(target_number, n), RemoveN(my_dice, target_number, n)))
    IN  IF target_count > 0 THEN First(Min2(5, target_count)) ELSE default_dice(g, rule)

\* four dice of value num and one more die
four_of(g, num) ==
    LET Found(dice) ==
            [dice |-> dice, score |-> calculate_rule_potential_score(dice, FOUR_OF_A_KIND)]
        Fifth(temp_dice) ==
            Found(Rep(num, 4) \o <<(IF temp_dice # <<>> THEN temp_dice[1] ELSE num)>>)
    IN  Fifth(RemoveN(g.my_state.dice, num, 4))

optimal_four_of_a_kind(g) ==
    LET my_dice == g.my_state.dice
        First(nums, otherwise) == IF nums # {} THEN four_of(g, MinOf(nums)) ELSE otherwise
    IN  IF g.current_round <= 8
        THEN First({num \in 4..6 : Count(my_dice, num) >= 4},
                   [dice |-> Rep(0, 5), score |-> 0])
        ELSE First({num \in 1..6 : Count(my_dice, num) >= 4},
                   default_dice(g, FOUR_OF_A_KIND))

\* the first (num1, num2) of the nested loops over lo..6: <<>> or <<(dice, score)>>
full_house_of(g, lo) ==
    LET my_dice == g.my_state.dice
        Found(dice) ==
            <<[dice |-> dice, score |-> calculate_rule_potential_score(dice, FULL_HOUSE)]>>
        Pair(first) == Found(Rep(first[1], 3) \o Rep(first[2], 2))
        First(pairs) ==
            IF pairs = {} THEN <<>>
            ELSE Pair(CHOOSE pr \in pairs :
                        \A q \in pairs : pr[1] < q[1] \/ (pr[1] = q[1] /\ pr[2] <= q[2]))
    IN  First({pr \in (lo..6) \X (lo..6) :
                 /\ pr[1] # pr[2]
                 /\ Count(my_dice, pr[1]) >= 3
                 /\ Count(my_dice, pr[2]) >= 2})

optimal_full_house(g) ==
    LET First(found, otherwise) == IF found # <<>> THEN found[1] ELSE otherwise
    IN  IF g.current_round <= 8
        THEN First(full_house_of(g, 4), [dice |-> Rep(0, 5), score |-> 0])
        ELSE First(full_house_of(g, 1), default_dice(g, FULL_HOUSE))

optimal_small_straight(g) ==
    LET my_dice == g.my_state.dice
        sequences == <<(<<1, 2, 3, 4>>), (<<2, 3, 4, 5>>), (<<3, 4, 5, 6>>)>>
        InPool(seq) == Cardinality({i \in 1..4 : Has(my_dice, seq[i])})
        IsHeld(v) == Has(my_dice, v)
        Found(dice) ==
            [dice |-> dice, score |-> calculate_rule_potential_score(dice, SMALL_STRAIGHT)]
        \* a complete sequence and one more die
        Fifth(sequence, temp_dice) ==
            Found(sequence \o
                  <<(IF temp_dice # <<>> THEN temp_dice[1]
                     ELSE IF sequence[4] < 6 THEN sequence[4] + 1 ELSE sequence[1] - 1)>>)
        Complete(sequence) == Fifth(sequence, RemovePresent(my_dice, sequence))
        \* the dice held of the first sequence with the most dice held
        Partial(counts, best_count) ==
            IF best_count >= 1
            THEN [dice |-> SelectSeq(sequences[MinOf({i \in 1..3 : counts[i] = best_count})],
                                     IsHeld),
                  score |-> 0]
            ELSE default_dice(g, SMALL_STRAIGHT)
        Sequences(counts) ==
            IF \E i \in 1..3 : counts[i] = 4
            THEN Complete(sequences[MinOf({i \in 1..3 : counts[i] = 4})])
            ELSE Partial(counts, MaxOf({counts[i] : i \in 1..3}))
    IN  Sequences([i \in 1..3 |-> InPool(sequences[i])])

optimal_large_straight(g) ==
    LET my_dice == g.my_state.dice
        Found(dice) ==
            [dice |-> dice, score |-> calculate_rule_potential_score(dice, LARGE_STRAIGHT)]
    IN  IF \A x \in 1..5 : Has(my_dice, x) THEN Found(<<1, 2, 3, 4, 5>>)
        ELSE IF \A x \in 2..6 : Has(my_dice, x) THEN Found(<<2, 3, 4, 5, 6>>)
        ELSE default_dice(g, LARGE_STRAIGHT)

optimal_yacht(g) ==
    LET Found(dice) ==
            [dice |-> dice, score |-> calculate_rule_potential_score(dice, YACHT)]
        First(nums) ==
            IF nums # {} THEN Found(Rep(MinOf(nums), 5)) ELSE default_dice(g, YACHT)
    IN  First({num \in 1..6 : Count(g.my_state.dice, num) >= 5})

optimal_choice(g) ==
    LET Found(dice) ==
            [dice |-> dice, score |-> calculate_rule_potential_score(dice, CHOICE)]
    IN  IF g.current_round >= 10
        THEN Found(Take(SortDesc(g.my_state.dice), 5))
        ELSE [dice |-> Rep(0, 5), score |-> 0]

\* (dice, score) for one rule
find_optimal_dice_for_rule(g, rule) ==
    IF rule \in NumberRules THEN optimal_number(g, rule)
    ELSE IF rule = CHOICE THEN optimal_choice(g)
    ELSE IF rule = FOUR_OF_A_KIND THEN optimal_four_of_a_kind(g)
    ELSE IF rule = FULL_HOUSE THEN optimal_full_house(g)
    ELSE IF rule = SMALL_STRAIGHT THEN optimal_small_straight(g)
    ELSE IF rule = LARGE_STRAIGHT THEN optimal_large_straight(g)
    ELSE optimal_yacht(g)

priority_rules ==
    <<YACHT, LARGE_STRAIGHT, SMALL_STRAIGHT, FOUR_OF_A_KIND, FULL_HOUSE, CHOICE,
      SIX, FIVE, FOUR, THREE, TWO, ONE>>

NoBest == [rule |-> None, dice |-> <<>>, score |-> -1]

\* one iteration of the priority loop of calculate_put
consider(g, best, rule) ==
    LET Found(found) ==
            IF ~should_use_rule_strategically(g, rule, found.score) THEN best
            ELSE IF rule \in {SMALL_STRAIGHT, LARGE_STRAIGHT} /\ found.score = 0
            THEN (IF \/ best.rule = None
                     \/ best.rule \notin {YACHT, LARGE_STRAIGHT, SMALL_STRAIGHT}
                     \/ best.score = 0
                  THEN [rule |-> rule, dice |-> found.dice, score |-> found.score]
                  ELSE best)
            ELSE IF found.score > best.score
            THEN [rule |-> rule, dice |-> found.dice, score |-> found.score]
            ELSE best
    IN  IF g.my_state.rule_score[rule] # None THEN best
        ELSE Found(find_optimal_dice_for_rule(g, rule))

RECURSIVE priority_loop(_, _, _)
priority_loop(g, best, i) ==
    IF i > Len(priority_rules) THEN best
    ELSE priority_loop(g, consider(g, best, priority_rules[i]), i + 1)

\* the loop over unused_rules that runs when the priority loop chose nothing
RECURSIVE score_loop(_, _, _)
score_loop(g, best, rule) ==
    LET Found(found) ==
            IF found.score > best.score
            THEN [rule |-> rule, dice |-> found.dice, score |-> found.score]
            ELSE best
    IN  IF rule > YACHT THEN best
        ELSE IF g.my_state.rule_score[rule] # None THEN score_loop(g, best, rule + 1)
        ELSE score_loop(g, Found(find_optimal_dice_for_rule(g, rule)), rule + 1)

\* the clean-up of 1s, 2s and 3s after YACHT: <<>> or <<put>>
cleanup(g, at_least) ==
    LET First(rules) ==
            IF rules = {} THEN <<>>
            ELSE <<DicePut(MinOf(rules), find_optimal_dice_for_rule(g, MinOf(rules)).dice)>>
    IN  First({rule \in ONE..THREE : /\ Count(g.my_state.dice, rule + 1) >= at_least
                                     /\ g.my_state.rule_score[rule] = None})

\* calculate_put returns the put and the exception raised, "" for none
calculate_put(g) ==
    LET rs == g.my_state.rule_score
        unused_rules == {r \in Rules : rs[r] = None}
        high_value_rules_completed ==
            g.my_yacht_completed /\ rs[LARGE_STRAIGHT] # None /\ rs[SMALL_STRAIGHT] # None
        \* the rule of the best score, else the first unused rule
        Scored(best) ==
            IF best.rule # None
            THEN [exc |-> "", put |-> DicePut(best.rule, best.dice)]
            ELSE IF unused_rules = {}
            THEN [exc |-> "IndexError", put |-> DicePut(None, <<>>)]
            ELSE [exc |-> "",
                  put |-> DicePut(MinOf(unused_rules),
                                  IF Len(g.my_state.dice) >= 5
                                  THEN Take(g.my_state.dice, 5) ELSE Rep(0, 5))]
        Prioritised(best) ==
            IF best.rule = None THEN Scored(score_loop(g, best, 0)) ELSE Scored(best)
        Cleaned(early) ==
            IF early # <<>> THEN [exc |-> "", put |-> early[1]]
            ELSE Prioritised(priority_loop(g, NoBest, 1))
    IN  Cleaned(IF high_value_rules_completed THEN cleanup(g, 3)
                ELSE IF g.my_yacht_completed THEN cleanup(g, 4)
                ELSE <<>>)

update_get(g, a, b, my_bid, opp_bid, my_group) ==
    LET g1 == save_opponent_bid(g, g.current_round, opp_bid.amount)
        mine == IF my_group = "A" THEN a ELSE b
        theirs == IF my_group = "A" THEN b ELSE a
        my_bid_ok == my_bid.group = my_group
        opp_group == IF my_group = "A" THEN "B" ELSE "A"
        opp_bid_ok == opp_bid.group = opp_group
    IN  [g1 EXCEPT
           !.my_state = bid(add_dice(@, mine), my_bid_ok, my_bid.amount),
           !.opp_state = bid(add_dice(@, theirs), opp_bid_ok, opp_bid.amount)]

\* update_put and update_set return the new game and the exception raised
update_put(g, p) ==
    LET Used(res) ==
            IF res.exc # "" THEN [exc |-> res.exc, g |-> g]
            ELSE [exc |-> "", g |-> check_my_yacht_completion([g EXCEPT !.my_state = res.st])]
    IN  Used(use_dice(g.my_state, p))

update_set(g, p) ==
    LET Used(res) ==
            IF res.exc # "" THEN [exc |-> res.exc, g |-> g]
            ELSE [exc |-> "",
                  g |-> check_opponent_yacht_completion([g EXCEPT !.opp_state = res.st])]
    IN  Used(use_dice(g.opp_state, p))

(***************************************************************************)
(* test2.py.  Its Game is the record [my_state, opp_state]: it keeps no    *)
(* round counter and no bid history.                                       *)
(***************************************************************************)
Game_t2 == [my_state |-> GameState, opp_state |-> GameState]

\* more combinations than this are sampled down to this many
SampleLimit == 300

get_total_score_t2(st) ==
    LET basic == SumScores(st.rule_score, 0, 5)
        bonus == IF basic >= 63000 THEN 35000 ELSE 0
        combination == SumScores(st.rule_score, 6, 11)
    IN  basic + bonus + combination + st.bid_score

bid_t2(st, is_successful, amount) ==
    [st EXCEPT !.bid_score = @ + (IF is_successful THEN -amount ELSE amount)]

add_dice_t2(st, new_dice) == [st EXCEPT !.dice = @ \o new_dice]

calculate_score_t2(rule, dice) ==
    LET counts == [i \in 1..6 |-> Count(dice, i)]
    IN  IF rule \in NumberRules THEN Count(dice, rule + 1) * (rule + 1) * 1000
        ELSE IF rule = CHOICE THEN SumSeq(dice) * 1000
        ELSE IF rule = FOUR_OF_A_KIND THEN
            IF \E i \in 1..6 : counts[i] >= 4 THEN SumSeq(dice) * 1000 ELSE 0
        ELSE IF rule = FULL_HOUSE THEN
            IF (\E i \in 1..6 : counts[i] = 3) /\ (\E i \in 1..6 : counts[i] = 2)
            THEN SumSeq(dice) * 1000 ELSE 0
        ELSE IF rule = SMALL_STRAIGHT THEN
            IF \/ \A v \in 1..4 : Has(dice, v)
               \/ \A v \in 2..5 : Has(dice, v)
               \/ \A v \in 3..6 : Has(dice, v)
            THEN 15000 ELSE 0
        ELSE IF rule = LARGE_STRAIGHT THEN
            IF SortAsc(dice) \in {<<1, 2, 3, 4, 5>>, <<2, 3, 4, 5, 6>>} THEN 30000 ELSE 0
        ELSE IF \E i \in 1..6 : counts[i] = 5 THEN 50000 ELSE 0

\* the loop of use_dice: list.remove raises ValueError at the first missing die
RECURSIVE RemoveEach(_, _)
RemoveEach(pool, hand) ==
    IF hand = <<>> THEN [exc |-> "", dice |-> pool]
    ELSE IF Has(pool, Head(hand)) THEN RemoveEach(Remove(pool, Head(hand)), Tail(hand))
    ELSE [exc |-> "ValueError", dice |-> pool]

use_dice_t2(st, p) ==
    LET Removed(res) ==
            IF res.exc # "" THEN [exc |-> res.exc, st |-> [st EXCEPT !.dice = res.dice]]
            ELSE [exc |-> "",
                  st  |-> [st EXCEPT !.dice = res.dice,
                                     !.rule_score[p.rule] = calculate_score_t2(p.rule, p.dice)]]
    IN  IF p.rule = None \/ st.rule_score[p.rule] # None
        THEN [exc |-> "AssertionError", st |-> st]
        ELSE Removed(RemoveEach(st.dice, p.dice))

get_unused_rules(st) == {r \in Rules : st.rule_score[r] = None}

\* list(itertools.combinations(s, k)): the hands in the order of their positions
RECURSIVE combinations(_, _)
combinations(s, k) ==
    LET With(rest) == [i \in 1..Len(rest) |-> <<Head(s)>> \o rest[i]]
    IN  IF k = 0 THEN <<(<<>>)>>
        ELSE IF Len(s) < k THEN <<>>
        ELSE With(combinations(Tail(s), k - 1)) \o combinations(Tail(s), k)

\* the best score of a hand over the rules, at least 0
HandScore(hand, rules) == MaxOf({0} \cup {calculate_score_t2(r, hand) : r \in rules})

sacrifice_priority ==
    <<YACHT, LARGE_STRAIGHT, FOUR_OF_A_KIND, SMALL_STRAIGHT, FULL_HOUSE, ONE, TWO>>

find_best_put(st, dice_pool, is_sacrifice_ok) ==
    LET unused_rules == get_unused_rules(st)
        FirstAt(hands, good) == MinOf({j \in 1..Len(hands) : hands[j] \in good})
        \* max() keeps the first play of the highest score
        BestPlay(hands, best_score, best_hands) ==
            LET Play(hand) ==
                    DicePut(MinOf({r \in unused_rules :
                                     calculate_score_t2(r, hand) = best_score}), hand)
            IN  Play(hands[FirstAt(hands, best_hands)])
        \* the first play of score 0 under the first rule of the list that has one
        Sacrifice(hands, hand_set, best) ==
            LET Zero(i) == {h \in hand_set : calculate_score_t2(sacrifice_priority[i], h) = 0}
                First(is) ==
                    IF is = {} THEN best
                    ELSE DicePut(sacrifice_priority[MinOf(is)],
                                 hands[FirstAt(hands, Zero(MinOf(is)))])
            IN  First({i \in 1..Len(sacrifice_priority) :
                         sacrifice_priority[i] \in unused_rules /\ Zero(i) # {}})
        Best(hands, hand_set, best_score) ==
            IF is_sacrifice_ok /\ best_score < 10000
            THEN Sacrifice(hands, hand_set,
                           BestPlay(hands, best_score,
                                    {h \in hand_set : HandScore(h, unused_rules) = best_score}))
            ELSE BestPlay(hands, best_score,
                          {h \in hand_set : HandScore(h, unused_rules) = best_score})
        Plays(hands, hand_set) ==
            Best(hands, hand_set, MaxOf({HandScore(h, unused_rules) : h \in hand_set}))
        Hands(hands) ==
            IF hands = <<>> THEN DicePut(MinOf(unused_rules), Take(dice_pool, 5))
            ELSE Plays(hands, {hands[j] : j \in 1..Len(hands)})
    IN  IF unused_rules = {} THEN DicePut(CHOICE, Take(dice_pool, 5))
        ELSE Hands(combinations(dice_pool, Min2(Len(dice_pool), 5)))

\* calculate_potential_score with the sample size as a parameter: the set of
\* values the call can return when random.sample keeps budget hands.  A value is
\* the best score of some sample exactly when a hand scores it and at least
\* budget hands score no more.
sampled_potential_score(dice_pool, unused_rules, budget) ==
    LET Sampled(hands, scores) ==
            {v \in {scores[j] : j \in 1..Len(hands)} :
               Cardinality({j \in 1..Len(hands) : scores[j] <= v}) >= budget}
        All(hands) ==
            IF Len(hands) > budget
            THEN Sampled(hands, [j \in 1..Len(hands) |-> HandScore(hands[j], unused_rules)])
            ELSE {MaxOf({0} \cup {HandScore(hands[j], unused_rules) : j \in 1..Len(hands)})}
    IN  All(combinations(dice_pool, Min2(Len(dice_pool), 5)))

\* calculate_potential_score that scores the whole pool as one hand
calculate_potential_score_whole(dice_pool, unused_rules) ==
    {HandScore(dice_pool, unused_rules)}

\* calculate_potential_score that samples 200 hands once there are more than 200
calculate_potential_score_sample200(dice_pool, unused_rules) ==
    sampled_potential_score(dice_pool, unused_rules, SampleLimit - 100)

\* the set of values the call can return (random.sample keeps SampleLimit hands)
calculate_potential_score(dice_pool, unused_rules) ==
    sampled_potential_score(dice_pool, unused_rules, SampleLimit)

\* the set of bids the call can return
\* calculate_bid that names group A when the two groups are worth the same
calculate_bid_t2_tie_a(g, dice_a, dice_b) ==
    LET my_dice == g.my_state.dice
        opp_dice == g.opp_state.dice
        my_unused_rules == get_unused_rules(g.my_state)
        opp_unused_rules == get_unused_rules(g.opp_state)
        score_diff == get_total_score_t2(g.my_state) - get_total_score_t2(g.opp_state)
        Amount(my_gain) ==
            IF score_diff < -20000 THEN my_gain \div 2
            ELSE IF score_diff > 20000 THEN my_gain \div 8
            ELSE my_gain \div 4
        Clamp(amount) == Max2(0, Min2(100000, amount))
        Decide(my_potential_A, my_potential_B, opp_potential_A, opp_potential_B) ==
            Bid(IF my_potential_A >= my_potential_B THEN "A" ELSE "B",
                Clamp(IF (my_potential_A > my_potential_B)
                           = (opp_potential_A > opp_potential_B)
                      THEN Amount(IF my_potential_A >= my_potential_B
                                  THEN my_potential_A - my_potential_B
                                  ELSE my_potential_B - my_potential_A)
                      ELSE 0))
    IN  {Decide(pa, pb, oa, ob) :
           pa \in calculate_potential_score(my_dice \o dice_a, my_unused_rules),
           pb \in calculate_potential_score(my_dice \o dice_b, my_unused_rules),
           oa \in calculate_potential_score(opp_dice \o dice_a, opp_unused_rules),
           ob \in calculate_potential_score(opp_dice \o dice_b, opp_unused_rules)}

\* calculate_bid that bids an eighth when far behind and a half when far ahead
calculate_bid_t2_swapped(g, dice_a, dice_b) ==
    LET my_dice == g.my_state.dice
        opp_dice == g.opp_state.dice
        my_unused_rules == get_unused_rules(g.my_state)
        opp_unused_rules == get_unused_rules(g.opp_state)
        score_diff == get_total_score_t2(g.my_state) - get_total_score_t2(g.opp_state)
        Amount(my_gain) ==
            IF score_diff < -20000 THEN my_gain \div 8
            ELSE IF score_diff > 20000 THEN my_gain \div 2
            ELSE my_gain \div 4
        Clamp(amount) == Max2(0, Min2(100000, amount))
        Decide(my_potential_A, my_potential_B, opp_potential_A, opp_potential_B) ==
            Bid(IF my_potential_A > my_potential_B THEN "A" ELSE "B",
                Clamp(IF (my_potential_A > my_potential_B)
                           = (opp_potential_A > opp_potential_B)
                      THEN Amount(IF my_potential_A >= my_potential_B
                                  THEN my_potential_A - my_potential_B
                                  ELSE my_potential_B - my_potential_A)
                      ELSE 0))
    IN  {Decide(pa, pb, oa, ob) :
           pa \in calculate_potential_score(my_dice \o dice_a, my_unused_rules),
           pb \in calculate_potential_score(my_dice \o dice_b, my_unused_rules),
           oa \in calculate_potential_score(opp_dice \o dice_a, opp_unused_rules),
           ob \in calculate_potential_score(opp_dice \o dice_b, opp_unused_rules)}

\* calculate_bid with the gain taken as potential A minus potential B, signed,
\* and the amount returned as computed
calculate_bid_t2_signed(g, dice_a, dice_b) ==
    LET my_dice == g.my_state.dice
        opp_dice == g.opp_state.dice
        my_unused_rules == get_unused_rules(g.my_state)
        opp_unused_rules == get_unused_rules(g.opp_state)
        score_diff == get_total_score_t2(g.my_state) - get_total_score_t2(g.opp_state)
        Amount(my_gain) ==
            IF score_diff < -20000 THEN my_gain \div 2
            ELSE IF score_diff > 20000 THEN my_gain \div 8
            ELSE my_gain \div 4
        Decide(my_potential_A, my_potential_B, opp_potential_A, opp_potential_B) ==
            Bid(IF my_potential_A > my_potential_B THEN "A" ELSE "B",
                IF (my_potential_A > my_potential_B) = (opp_potential_A > opp_potential_B)
                THEN Amount(my_potential_A - my_potential_B)
                ELSE 0)
    IN  {Decide(pa, pb, oa, ob) :
           pa \in calculate_potential_score(my_dice \o dice_a, my_unused_rules),
           pb \in calculate_potential_score(my_dice \o dice_b, my_unused_rules),
           oa \in calculate_potential_score(opp_dice \o dice_a, opp_unused_rules),
           ob \in calculate_potential_score(opp_dice \o dice_b, opp_unused_rules)}

calculate_bid_t2(g, dice_a, dice_b) ==
    LET my_dice == g.my_state.dice
        opp_dice == g.opp_state.dice
        my_unused_rules == get_unused_rules(g.my_state)
        opp_unused_rules == get_unused_rules(g.opp_state)
        score_diff == get_total_score_t2(g.my_state) - get_total_score_t2(g.opp_state)
        Amount(my_gain) ==
            IF score_diff < -20000 THEN my_gain \div 2
            ELSE IF score_diff > 20000 THEN my_gain \div 8
            ELSE my_gain \div 4
        Clamp(amount) == Max2(0, Min2(100000, amount))
        Decide(my_potential_A, my_potential_B, opp_potential_A, opp_potential_B) ==
            Bid(IF my_potential_A > my_potential_B THEN "A" ELSE "B",
                Clamp(IF (my_potential_A > my_potential_B)
                           = (opp_potential_A > opp_potential_B)
                      THEN Amount(IF my_potential_A >= my_potential_B
                                  THEN my_potential_A - my_potential_B
                                  ELSE my_potential_B - my_potential_A)
                      ELSE 0))
    IN  {Decide(pa, pb, oa, ob) :
           pa \in calculate_potential_score(my_dice \o dice_a, my_unused_rules),
           pb \in calculate_potential_score(my_dice \o dice_b, my_unused_rules),
           oa \in calculate_potential_score(opp_dice \o dice_a, opp_unused_rules),
           ob \in calculate_potential_score(opp_dice \o dice_b, opp_unused_rules)}

calculate_put_t2(g) == find_best_put(g.my_state, g.my_state.dice, TRUE)

update_get_t2(g, dice_a, dice_b, my_bid, opp_bid, my_group) ==
    LET mine == IF my_group = "A" THEN dice_a ELSE dice_b
        theirs == IF my_group = "A" THEN dice_b ELSE dice_a
        my_bid_ok == my_bid.group = my_group
        opp_group == IF my_group = "A" THEN "B" ELSE "A"
        opp_bid_ok == opp_bid.group = opp_group
    IN  [g EXCEPT
           !.my_state = bid_t2(add_dice_t2(@, mine), my_bid_ok, my_bid.amount),
           !.opp_state = bid_t2(add_dice_t2(@, theirs), opp_bid_ok, opp_bid.amount)]

update_put_t2(g, p) ==
    LET Used(res) == [exc |-> res.exc, g |-> [g EXCEPT !.my_state = res.st]]
    IN  Used(use_dice_t2(g.my_state, p))

update_set_t2(g, p) ==
    LET Used(res) == [exc |-> res.exc, g |-> [g EXCEPT !.opp_state = res.st]]
    IN  Used(use_dice_t2(g.opp_state, p))

(***************************************************************************)
(* The command loop of main().  session is the program that runs; game,    *)
(* dice_a, dice_b, my_bid, command, args and put are main's variables      *)
(* (command and args: the last line read); exc is the exception that ended *)
(* the process, "" while it runs; judge is the state of the external judge *)
(* that sends the commands: the rounds rolled, the awards made and the     *)
(* SCORE and SET commands sent so far.                                     *)
(***************************************************************************)
VARIABLES session, game, dice_a, dice_b, my_bid, command, args, put, exc, judge

vars == <<session, game, dice_a, dice_b, my_bid, command, args, put, exc, judge>>

\* The judge plays 13 turns for the 12 categories: turns 1..12 roll and award,
\* turns 2..13 score, so that in the last rolling turn ten dice are held and two
\* categories are open (main.py, calculate_put: the branch current_round >= 12).
FirstScoreRound == 2
LastRollRound == 12

\* Bounds of the exploration.
MaxRound == 3
MaxBid == 1

S6 == <<6, 6, 6, 6, 6>>
H5 == <<5, 5, 5, 5, 5>>
H4 == <<4, 4, 1, 2, 3>>

InitMain(sessions) ==
    /\ session \in sessions
    /\ game = IF session = "1650" THEN Game ELSE Game_t2
    /\ dice_a = Rep(0, 5)
    /\ dice_b = Rep(0, 5)
    /\ my_bid = Bid("", 0)
    /\ command = ""
    /\ args = <<>>
    /\ put = DicePut(None, <<>>)
    /\ exc = ""
    /\ judge = [round |-> 0, awards |-> 0, scores |-> 0, sets |-> 0]

CanRoll(horizon) ==
    /\ exc = ""
    /\ judge.round < Min2(horizon, LastRollRound)
    /\ \/ command = ""
       \/ command = "SET"
       \/ command = "GET" /\ judge.round < FirstScoreRound

CanScore ==
    /\ exc = ""
    /\ \/ command = "GET" /\ judge.round >= FirstScoreRound
       \/ /\ command = "SET"
          /\ judge.round = LastRollRound
          /\ judge.scores = LastRollRound - FirstScoreRound + 1

\* ROLL str_a str_b
Roll(horizon, rolls) ==
    /\ CanRoll(horizon)
    /\ game' = IF session = "1650" THEN [game EXCEPT !.current_round = @ + 1] ELSE game
    /\ \E pr \in rolls :
         /\ args' = <<pr.a, pr.b>>
         /\ dice_a' = pr.a
         /\ dice_b' = pr.b
         /\ my_bid' \in IF session = "1650" THEN calculate_bid(game', pr.a, pr.b)
                        ELSE calculate_bid_t2(game', pr.a, pr.b)
    /\ command' = "ROLL"
    /\ judge' = [judge EXCEPT !.round = @ + 1]
    /\ UNCHANGED <<session, put, exc>>

\* GET get_group opp_group opp_score
Get(groups, opp_bids) ==
    /\ exc = ""
    /\ command = "ROLL"
    /\ \E get_group \in groups, opp_bid \in opp_bids :
         /\ args' = <<get_group, opp_bid.group, opp_bid.amount>>
         /\ game' = IF session = "1650"
                    THEN update_get(game, dice_a, dice_b, my_bid, opp_bid, get_group)
                    ELSE update_get_t2(game, dice_a, dice_b, my_bid, opp_bid, get_group)
    /\ command' = "GET"
    /\ judge' = [judge EXCEPT !.awards = @ + 1]
    /\ UNCHANGED <<session, dice_a, dice_b, my_bid, put, exc>>

\* SCORE
Score ==
    /\ CanScore
    /\ \E res \in {IF session = "1650" THEN calculate_put(game)
                    ELSE [exc |-> "", put |-> calculate_put_t2(game)]} :
         IF res.exc # ""
         THEN /\ exc' = res.exc
              /\ UNCHANGED <<game, put>>
         ELSE \E up \in {IF session = "1650" THEN update_put(game, res.put)
                          ELSE update_put_t2(game, res.put)} :
                /\ put' = res.put
                /\ game' = up.g
                /\ exc' = up.exc
    /\ command' = "SCORE"
    /\ args' = <<>>
    /\ judge' = [judge EXCEPT !.scores = @ + 1]
    /\ UNCHANGED <<session, dice_a, dice_b, my_bid>>

\* SET rule str_dice
Set(puts) ==
    /\ exc = ""
    /\ command = "SCORE"
    /\ \E p \in puts : \E up \in {IF session = "1650" THEN update_set(game, p)
                                     ELSE update_set_t2(game, p)} :
         /\ args' = <<p.rule, p.dice>>
         /\ game' = up.g
         /\ exc' = up.exc
    /\ command' = "SET"
    /\ judge' = [judge EXCEPT !.sets = @ + 1]
    /\ UNCHANGED <<session, dice_a, dice_b, my_bid, put>>

(***************************************************************************)
(* Spec: the first MaxRound rounds, with either group awarded, opponent    *)
(* bids of 0 and MaxBid, and opponent placements that may name a filled    *)
(* category or dice the opponent does not hold.                            *)
(***************************************************************************)
SpecRolls == {[a |-> S6, b |-> H5], [a |-> H4, b |-> S6]}
SpecOppBids == {Bid("A", 0), Bid("B", MaxBid)}
SpecSets == {DicePut(SIX, S6), DicePut(FIVE, H5), DicePut(FOUR, H4)}

Init == InitMain({"1650", "test2"})

Next ==
    \/ Roll(MaxRound, SpecRolls)
    \/ Get({"A", "B"}, SpecOppBids)
    \/ Score
    \/ Set(SpecSets)

Spec == Init /\ [][Next]_vars

(***************************************************************************)
(* SpecGame: one complete game of 1650.py.  Each round group A is H1 and   *)
(* group B follows the list S6, H5, H4, H4, ...; either group may be       *)
(* awarded; the opponent bids MaxBid on B and places the oldest five dice  *)
(* of its pool, under the number category of the first of them while that  *)
(* category is open and under its lowest open category otherwise.          *)
(***************************************************************************)
H1 == <<1, 2, 3, 5, 6>>

GameRoll(round) ==
    [a |-> H1, b |-> IF round = 1 THEN S6 ELSE IF round = 2 THEN H5 ELSE H4]

GameSets ==
    LET st == game.opp_state
        open == {r \in Rules : st.rule_score[r] = None}
        hand == Take(st.dice, 5)
    IN  IF open = {} \/ hand = <<>> THEN {}
        ELSE {DicePut(IF hand[1] - 1 \in open THEN hand[1] - 1 ELSE MinOf(open), hand)}

InitGame == InitMain({"1650"})

NextGame ==
    \/ Roll(LastRollRound, {GameRoll(judge.round + 1)})
    \/ Get({"A", "B"}, {Bid("B", MaxBid)})
    \/ Score
    \/ Set(GameSets)

SpecGame == InitGame /\ [][NextGame]_vars

(***************************************************************************)
(* Properties of placement and bid resolution, checked under Spec.         *)
(***************************************************************************)

\* C1: for each agent a filled category keeps its score through every later
\* ROLL, GET, SCORE and SET and never becomes open again; a SCORE or SET whose
\* placement names a filled category raises AssertionError and changes nothing.
C1_FilledCategoryImmutable ==
    [][/\ \A side \in {"my_state", "opp_state"}, r \in Rules :
            game[side].rule_score[r] # None
                => game'[side].rule_score[r] = game[side].rule_score[r]
       /\ (judge'.sets = judge.sets + 1 /\ game.opp_state.rule_score[args'[1]] # None)
            => (exc' = "AssertionError" /\ game' = game)
       /\ (/\ judge'.scores = judge.scores + 1
           /\ exc' # "IndexError"
           /\ game.my_state.rule_score[put'.rule] # None)
            => (exc' = "AssertionError" /\ game' = game)]_vars

\* C1 case: a SET named a category the opponent had filled, and the process
\* ended with AssertionError, the stored score still in place.
C1_SecondPlacementFails ==
    /\ command = "SET"
    /\ exc = "AssertionError"
    /\ game.opp_state.rule_score[args[1]] # None

\* C3: a SCORE or SET whose dice are not all in the agent's pool ends with an
\* exception and does not score the category.
C3_MissingDiceRejected ==
    [][/\ (/\ judge'.sets = judge.sets + 1
           /\ game.opp_state.rule_score[args'[1]] = None
           /\ ~SubBag(args'[2], game.opp_state.dice))
            => (exc' # "" /\ game'.opp_state.rule_score = game.opp_state.rule_score)
       /\ (/\ judge'.scores = judge.scores + 1
           /\ exc' # "IndexError"
           /\ game.my_state.rule_score[put'.rule] = None
           /\ ~SubBag(put'.dice, game.my_state.dice))
            => (exc' # "" /\ game'.my_state.rule_score = game.my_state.rule_score)]_vars

\* C4: at every GET each ledger moves by exactly the bid amount of its agent:
\* down when the agent was awarded the group it bid on, up otherwise, and not at
\* all for an amount of 0; the opponent is awarded the group this agent is not.
C4_BidResolution ==
    [][judge'.awards = judge.awards + 1 =>
         LET get_group == args'[1]
             opp_group == args'[2]
             opp_score == args'[3]
             opp_awarded == IF get_group = "A" THEN "B" ELSE "A"
             mine == game.my_state.bid_score
             theirs == game.opp_state.bid_score
         IN  /\ game'.my_state.bid_score =
                    IF my_bid.group = get_group THEN mine - my_bid.amount
                    ELSE mine + my_bid.amount
             /\ game'.opp_state.bid_score =
                    IF opp_group = opp_awarded THEN theirs - opp_score
                    ELSE theirs + opp_score
             /\ my_bid.amount = 0 => game'.my_state.bid_score = mine
             /\ opp_score = 0 => game'.opp_state.bid_score = theirs]_vars

\* C4 case: a GET awarded this agent the group of its positive bid and gave the
\* opponent the group it had not bid on, its bid positive too.
C4_BothBranchesTaken ==
    /\ command = "GET"
    /\ judge.awards = 1
    /\ my_bid.group = args[1]
    /\ my_bid.amount > 0
    /\ args[2] = args[1]
    /\ args[3] > 0
    /\ game.my_state.bid_score = -my_bid.amount
    /\ game.opp_state.bid_score = args[3]

\* C6: every GET appends the awarded group to this agent's pool and the other
\* group to the opponent's pool, and stores the opponent's bid amount in the bid
\* history under the current round, the earlier entries unchanged.
C6_AwardGrowsPoolsAndHistory ==
    [][judge'.awards = judge.awards + 1 =>
         LET get_group == args'[1]
             History(g) == IF "opponent_bids" \in DOMAIN g THEN g.opponent_bids ELSE <<>>
         IN  /\ game'.my_state.dice =
                    game.my_state.dice \o (IF get_group = "A" THEN dice_a ELSE dice_b)
             /\ game'.opp_state.dice =
                    game.opp_state.dice \o (IF get_group = "A" THEN dice_b ELSE dice_a)
             /\ judge.round \in DOMAIN History(game')
             /\ History(game')[judge.round] = args'[3]
             /\ \A k \in DOMAIN History(game) \ {judge.round} :
                    k \in DOMAIN History(game') /\ History(game')[k] = History(game)[k]]_vars

(***************************************************************************)
(* Properties of a complete game, checked under SpecGame.                  *)
(***************************************************************************)

\* C2: every SCORE and SET that is carried out removes the committed hand from
\* the agent's pool, by multiplicity, and so shortens the pool by exactly 5.
C2_PlacementRemovesHand ==
    [][LET Removed(before, after, hand) ==
               /\ \A v \in 0..6 : Count(after, v) + Count(hand, v) = Count(before, v)
               /\ Len(after) = Len(before) - 5
       IN  /\ (judge'.scores = judge.scores + 1 /\ exc' = "")
                => Removed(game.my_state.dice, game'.my_state.dice, put'.dice)
           /\ (judge'.sets = judge.sets + 1 /\ exc' = "")
                => Removed(game.opp_state.dice, game'.opp_state.dice, args'[2])]_vars

\* C5: for each agent the total score is the sum of the filled number
\* categories, plus 35000 when that sum is at least 63000, plus the sum of the
\* other filled categories, plus the ledger; open categories count 0.
C5_TotalScore ==
    \A side \in {"my_state", "opp_state"} :
        LET st == game[side]
            Filled(r) == IF st.rule_score[r] = None THEN 0 ELSE st.rule_score[r]
            subtotal == Filled(ONE) + Filled(TWO) + Filled(THREE)
                          + Filled(FOUR) + Filled(FIVE) + Filled(SIX)
            others == Filled(CHOICE) + Filled(FOUR_OF_A_KIND) + Filled(FULL_HOUSE)
                        + Filled(SMALL_STRAIGHT) + Filled(LARGE_STRAIGHT) + Filled(YACHT)
            total == subtotal + (IF subtotal >= 63000 THEN 35000 ELSE 0)
                       + others + st.bid_score
        IN  /\ get_total_score(st) = total
            /\ get_total_score_t2(st) = total

\* C5 case: the opponent's number categories add up to exactly 63000 and the
\* bonus is part of its total.
C5_BonusAtBoundary ==
    LET st == game.opp_state
    IN  /\ SumScores(st.rule_score, ONE, SIX) = 63000
        /\ get_total_score(st)
             = 63000 + 35000 + SumScores(st.rule_score, CHOICE, YACHT) + st.bid_score

\* C7: when SCORE arrives with at least five dice in the own pool and a category
\* open, calculate_put returns an open category and dice that are all in the pool.
C7_PutIsApplicable ==
    (/\ CanScore
     /\ Len(game.my_state.dice) >= 5
     /\ \E r \in Rules : game.my_state.rule_score[r] = None)
        => LET res == calculate_put(game)
           IN  /\ res.exc = ""
               /\ game.my_state.rule_score[res.put.rule] = None
               /\ SubBag(res.put.dice, game.my_state.dice)

\* C8: when SCORE arrives with at least five dice in the own pool and a category
\* open, calculate_put returns exactly five dice, each from 1 to 6.
C8_PutIsFiveDice ==
    (/\ CanScore
     /\ Len(game.my_state.dice) >= 5
     /\ \E r \in Rules : game.my_state.rule_score[r] = None)
        => LET dice == calculate_put(game).put.dice
           IN  /\ Len(dice) = 5
               /\ \A i \in DOMAIN dice : dice[i] \in 1..6

\* C9: each pool holds 5 dice for every award not yet matched by a placement,
\* and once the last round is awarded each pool holds 5 dice for every category
\* still open.
C9_PoolSize ==
    exc = "" =>
        /\ Len(game.my_state.dice) = 5 * (judge.awards - judge.scores)
        /\ Len(game.opp_state.dice) = 5 * (judge.awards - judge.sets)
        /\ judge.awards = LastRollRound =>
             \A side \in {"my_state", "opp_state"} :
                 Len(game[side].dice)
                   = 5 * Cardinality({r \in Rules : game[side].rule_score[r] = None})

\* C10: every SCORE fills exactly one open category of this agent and leaves
\* its other categories and its ledger unchanged, and the twelfth SCORE leaves
\* all twelve categories filled and the own pool empty.
C10_AllFilledAndPoolEmpty ==
    [][(judge'.scores = judge.scores + 1 /\ exc' = "") =>
         /\ game.my_state.rule_score[put'.rule] = None
         /\ game'.my_state.rule_score[put'.rule] # None
         /\ \A r \in Rules \ {put'.rule} :
                game'.my_state.rule_score[r] = game.my_state.rule_score[r]
         /\ game'.my_state.bid_score = game.my_state.bid_score
         /\ judge'.scores = LastRollRound =>
              /\ \A r \in Rules : game'.my_state.rule_score[r] # None
              /\ game'.my_state.dice = <<>>]_vars

(***************************************************************************)
(* SpecScore: the scoring evaluators as functions of a category and a      *)
(* hand.  put is any category with any five values 0..6 (0 is the padding  *)
(* value of a short hand); ScoreHand is the last statement of use_dice,    *)
(* which stores calculate_score(put) in the category of the put.           *)
(***************************************************************************)
Hands == [1..5 -> 0..6]

Evaluator(rule, dice) ==
    IF session = "test2" THEN calculate_score_t2(rule, dice) ELSE calculate_score(rule, dice)

InitScore ==
    /\ session \in {"1650", "test2"}
    /\ game = IF session = "1650" THEN Game ELSE Game_t2
    /\ dice_a = Rep(0, 5)
    /\ dice_b = Rep(0, 5)
    /\ my_bid = Bid("", 0)
    /\ command = ""
    /\ args = <<>>
    /\ put \in {DicePut(rule, dice) : rule \in Rules, dice \in Hands}
    /\ exc = ""
    /\ judge = [round |-> 0, awards |-> 0, scores |-> 0, sets |-> 0]

ScoreHand ==
    /\ game.my_state.rule_score[put.rule] = None
    /\ game' = [game EXCEPT !.my_state.rule_score[put.rule] = Evaluator(put.rule, put.dice)]
    /\ UNCHANGED <<session, dice_a, dice_b, my_bid, command, args, put, exc, judge>>

NextScore == ScoreHand

SpecScore == InitScore /\ [][NextScore]_vars

\* the score stored by ScoreHand, None before it
Scored == game.my_state.rule_score[put.rule]

\* C15: the score of a hand under a category does not change when two
\* neighbouring dice of the hand are exchanged, hence under no reordering, in
\* either evaluator.
C15_ScoreIgnoresOrder ==
    Scored # None =>
        \A i \in 1..4 :
            LET swapped == [put.dice EXCEPT ![i] = put.dice[i + 1], ![i + 1] = put.dice[i]]
            IN  Evaluator(put.rule, swapped) = Scored

\* C15 case: test2.py scored the unsorted run 6,2,5,3,4 as a LARGE_STRAIGHT.
C15_UnsortedRunScored ==
    /\ session = "test2"
    /\ put = DicePut(LARGE_STRAIGHT, <<6, 2, 5, 3, 4>>)
    /\ Scored = 30000

\* C16: FULL_HOUSE scores the sum of the hand times 1000 when one value occurs
\* three times and another twice or when all five dice are equal, and 0
\* otherwise, in either evaluator.
C16_FullHouse ==
    (/\ Scored # None
     /\ put.rule = FULL_HOUSE
     /\ \A i \in 1..5 : put.dice[i] \in 1..6)
        => Scored =
             IF \/ \E a, b \in 1..6 :
                     a # b /\ Count(put.dice, a) = 3 /\ Count(put.dice, b) = 2
                \/ \E a \in 1..6 : Count(put.dice, a) = 5
             THEN SumSeq(put.dice) * 1000 ELSE 0

\* C17: LARGE_STRAIGHT scores 30000 when the values of the hand are exactly
\* 1..5 or 2..6 and 0 otherwise, and the two evaluators agree on every hand.
C17_LargeStraight ==
    (/\ Scored # None
     /\ put.rule = LARGE_STRAIGHT
     /\ \A i \in 1..5 : put.dice[i] \in 1..6)
        => LET values == {put.dice[i] : i \in 1..5}
           IN  /\ Scored = IF values = 1..5 \/ values = 2..6 THEN 30000 ELSE 0
               /\ calculate_score(LARGE_STRAIGHT, put.dice)
                    = calculate_score_t2(LARGE_STRAIGHT, put.dice)

\* C17 case: 1650.py scored 1,2,3,4,6 as a LARGE_STRAIGHT with 0.
C17_BrokenRunScoresZero ==
    /\ session = "1650"
    /\ put = DicePut(LARGE_STRAIGHT, <<1, 2, 3, 4, 6>>)
    /\ Scored = 0

\* C18: SMALL_STRAIGHT scores 15000 when the values of the hand include 1..4,
\* 2..5 or 3..6 and 0 otherwise, in either evaluator.
C18_SmallStraight ==
    (/\ Scored # None
     /\ put.rule = SMALL_STRAIGHT
     /\ \A i \in 1..5 : put.dice[i] \in 1..6)
        => LET values == {put.dice[i] : i \in 1..5}
           IN  Scored = IF \/ 1..4 \subseteq values
                           \/ 2..5 \subseteq values
                           \/ 3..6 \subseteq values
                        THEN 15000 ELSE 0

\* C18 case: 1650.py scored 2,3,4,5,5 as a SMALL_STRAIGHT with 15000.
C18_MiddleRunScored ==
    /\ session = "1650"
    /\ put = DicePut(SMALL_STRAIGHT, <<2, 3, 4, 5, 5>>)
    /\ Scored = 15000

\* C19: YACHT scores 50000 when the five dice are equal and from 1 to 6, and 0
\* for every other hand, the all-padding hand included, in either evaluator.
C19_Yacht ==
    (Scored # None /\ put.rule = YACHT)
        => Scored = IF /\ \A i \in 1..5 : put.dice[i] = put.dice[1]
                       /\ put.dice[1] \in 1..6
                    THEN 50000 ELSE 0

\* C19 case: 1650.py scored 6,6,6,6,5 as a YACHT with 0.
C19_FourEqualScoresZero ==
    /\ session = "1650"
    /\ put = DicePut(YACHT, <<6, 6, 6, 6, 5>>)
    /\ Scored = 0

(***************************************************************************)
(* SpecEstimate: the estimator of test2.py as a function of a pool and a   *)
(* set of open categories.  The session starts with an opponent state      *)
(* drawn from EstPools and EstOpen (a filled category holds 0) and an      *)
(* empty own state; the one ROLL makes calculate_bid estimate the          *)
(* opponent's pool with each of the two groups: 10, 11 or 12 dice, that is *)
(* 252, 462 or 792 hands, the last two more than SampleLimit.              *)
(***************************************************************************)
EstPools ==
    {<<6, 6, 6, 6, 6>>, <<1, 2, 3, 4, 5, 6>>, <<1, 1, 2, 2, 3, 3, 4>>, <<6, 6, 5, 5, 4, 4, 3>>}

EstOpen == {{r, CHOICE} : r \in Rules} \cup {Rules}

EstRolls == {[a |-> H4, b |-> S6], [a |-> H1, b |-> H5]}

InitEstimate ==
    /\ session = "test2"
    /\ \E pool \in EstPools, open \in EstOpen :
         game = [Game_t2 EXCEPT
                   !.opp_state.dice = pool,
                   !.opp_state.rule_score = [r \in Rules |-> IF r \in open THEN None ELSE 0]]
    /\ dice_a = Rep(0, 5)
    /\ dice_b = Rep(0, 5)
    /\ my_bid = Bid("", 0)
    /\ command = ""
    /\ args = <<>>
    /\ put = DicePut(None, <<>>)
    /\ exc = ""
    /\ judge = [round |-> 0, awards |-> 0, scores |-> 0, sets |-> 0]

NextEstimate == Roll(LastRollRound, EstRolls)

SpecEstimate == InitEstimate /\ [][NextEstimate]_vars

\* the pools calculate_bid has estimated for the opponent in the last ROLL
Estimated == {game.opp_state.dice \o dice_a, game.opp_state.dice \o dice_b}

\* the best score of all hands of five dice of the pool: one hand for each set
\* of five positions
ExhaustiveMax(dice_pool, unused_rules) ==
    LET Nth(S, k) == CHOOSE x \in S : Cardinality({y \in S : y < x}) = k - 1
        HandAt(S) == [k \in 1..5 |-> dice_pool[Nth(S, k)]]
    IN  MaxOf({0} \cup {Evaluator(r, HandAt(S)) :
                          r \in unused_rules,
                          S \in {T \in SUBSET (DOMAIN dice_pool) : Cardinality(T) = 5}})

\* C12: whatever hands the sample keeps, the estimate of a pool is at most the
\* best score of all hands of five dice of the pool over the open categories.
C12_EstimateAtMostOptimum ==
    command = "ROLL" =>
        \A dice_pool \in Estimated :
            \E optimum \in {ExhaustiveMax(dice_pool, get_unused_rules(game.opp_state))} :
                \A v \in calculate_potential_score(dice_pool, get_unused_rules(game.opp_state)) :
                    v <= optimum

\* C12 case: a ROLL estimated a pool of more than ten dice, and one of the
\* samples misses every best hand: its estimate is below the optimum.
C12_SampleBelowOptimum ==
    /\ command = "ROLL"
    /\ \E dice_pool \in Estimated :
         /\ Len(dice_pool) > 10
         /\ \E optimum \in {ExhaustiveMax(dice_pool, get_unused_rules(game.opp_state))} :
              \E v \in calculate_potential_score(dice_pool, get_unused_rules(game.opp_state)) :
                  v < optimum

\* C13: for the same pool and open categories, an estimate made with a larger
\* sample is never below an estimate made with a smaller or equal sample.
C13_EstimateMonotoneInBudget ==
    command = "ROLL" =>
        \A dice_pool \in Estimated :
            \A small, large \in {SampleLimit, SampleLimit + 1} :
                small <= large =>
                    \A v \in sampled_potential_score(dice_pool,
                                 get_unused_rules(game.opp_state), small),
                       w \in sampled_potential_score(dice_pool,
                                 get_unused_rules(game.opp_state), large) :
                        v <= w

\* C14: the bid returned by calculate_bid names group A or group B and offers a
\* whole amount that is not negative, in either program.
C14_BidWellFormed ==
    judge.round > 0 => my_bid.group \in {"A", "B"} /\ my_bid.amount \in Nat

\* C14 case: test2.py has bid a positive amount for group B, the case in which
\* potential A minus potential B is negative.
C14_PositiveBidForB ==
    /\ command = "ROLL"
    /\ session = "test2"
    /\ my_bid.group = "B"
    /\ my_bid.amount > 0

\* the bids calculate_bid can return for the groups rolled
Bids(g, a, b) ==
    IF session = "1650" THEN calculate_bid(g, a, b) ELSE calculate_bid_t2(g, a, b)

PolicyFree(g) ==
    IF session = "1650"
    THEN /\ (IF /\ g.my_yacht_completed
                /\ g.my_state.rule_score[LARGE_STRAIGHT] # None
                /\ g.my_state.rule_score[SMALL_STRAIGHT] # None
             THEN cleanup(g, 3)
             ELSE IF g.my_yacht_completed THEN cleanup(g, 4) ELSE <<>>) = <<>>
         /\ g.my_state.rule_score[CHOICE] = None => g.current_round >= 10
         /\ \A rule \in get_unused_rules(g.my_state) :
              \E found \in {find_optimal_dice_for_rule(g, rule)} :
                  /\ should_use_rule_strategically(g, rule, found.score)
                  /\ rule \in {SMALL_STRAIGHT, LARGE_STRAIGHT} => found.score > 0
    ELSE \/ ExhaustiveMax(g.my_state.dice, get_unused_rules(g.my_state)) >= 10000
         \/ \A i \in 1..Len(sacrifice_priority) :
              sacrifice_priority[i] \in get_unused_rules(g.my_state) =>
                  \A hands \in {combinations(g.my_state.dice, 5)} :
                      \A j \in 1..Len(hands) :
                          calculate_score_t2(sacrifice_priority[i], hands[j]) # 0

\* C11: a SCORE in a state of at least five dice to which no deferral or
\* sacrifice rule applies places five dice of the pool under an open category
\* for the highest score that any five dice of the pool have under any open
\* category.
C11_PlacesMaximum ==
    [][(/\ judge'.scores = judge.scores + 1
        /\ exc' = ""
        /\ Len(game.my_state.dice) >= 5
        /\ PolicyFree(game))
         => /\ game.my_state.rule_score[put'.rule] = None
            /\ Len(put'.dice) = 5
            /\ SubBag(put'.dice, game.my_state.dice)
            /\ Evaluator(put'.rule, put'.dice)
                 = ExhaustiveMax(game.my_state.dice, get_unused_rules(game.my_state))]_vars

\* C28: a pool with at most SampleLimit hands of five dice (every pool of at
\* most ten dice) is not sampled: the estimate is the one value that is the best
\* score of all hands of five dice of the pool over the open categories.
C28_ExactUpToThreshold ==
    command = "ROLL" =>
        \A dice_pool \in Estimated :
            Len(combinations(dice_pool, 5)) <= SampleLimit =>
                calculate_potential_score(dice_pool, get_unused_rules(game.opp_state))
                    = {ExhaustiveMax(dice_pool, get_unused_rules(game.opp_state))}

\* C28 case: a ROLL estimated a pool of ten dice, 252 hands, and found a hand
\* that scores.
C28_TenDiceExact ==
    /\ command = "ROLL"
    /\ Len(game.opp_state.dice \o dice_a) = 10
    /\ \E v \in calculate_potential_score(game.opp_state.dice \o dice_a,
                                          get_unused_rules(game.opp_state)) : v > 0

(***************************************************************************)
(* SpecUse: use_dice as a function of an agent state and a placement.  The *)
(* opponent's state is drawn from UsePools and UseOpen (a filled category  *)
(* holds 0), the placement from UseRules and all hands of five dice; the   *)
(* one step is update_set, which hands the placement to use_dice.          *)
(***************************************************************************)
UsePools == {S6, <<6, 6, 6, 6, 5, 1, 2, 3, 4, 4>>}

UseOpen == {Rules, Rules \ {SIX, YACHT}}

UseRules == {ONE, SIX, CHOICE, YACHT}

InitUse ==
    /\ session \in {"1650", "test2"}
    /\ \E pool \in UsePools, open \in UseOpen :
         game = [(IF session = "1650" THEN Game ELSE Game_t2) EXCEPT
                   !.opp_state.dice = pool,
                   !.opp_state.rule_score = [r \in Rules |-> IF r \in open THEN None ELSE 0]]
    /\ dice_a = Rep(0, 5)
    /\ dice_b = Rep(0, 5)
    /\ my_bid = Bid("", 0)
    /\ command = ""
    /\ args = <<>>
    /\ put \in {DicePut(rule, dice) : rule \in UseRules, dice \in [1..5 -> 1..6]}
    /\ exc = ""
    /\ judge = [round |-> 0, awards |-> 0, scores |-> 0, sets |-> 0]

UseDice ==
    /\ exc = ""
    /\ command = ""
    /\ \E up \in {IF session = "1650" THEN update_set(game, put)
                  ELSE update_set_t2(game, put)} :
         /\ game' = up.g
         /\ exc' = up.exc
    /\ command' = "SET"
    /\ args' = <<put.rule, put.dice>>
    /\ judge' = [judge EXCEPT !.sets = @ + 1]
    /\ UNCHANGED <<session, dice_a, dice_b, my_bid, put>>

NextUse == UseDice

SpecUse == InitUse /\ [][NextUse]_vars

\* C29: a placement that use_dice rejects (AssertionError for a filled
\* category, ValueError for a die that is not in the pool) leaves the agent's
\* pool, category board and ledger as they were before the call.
C29_RejectedPlacementChangesNothing ==
    [][(exc = "" /\ exc' \in {"AssertionError", "ValueError"})
         => /\ game'.my_state = game.my_state
            /\ game'.opp_state = game.opp_state]_vars

(***************************************************************************)
(* main.py.  Its GameState (lines 41-153), its Game fields and its         *)
(* update_put are those of 1650.py; the operators below are the methods of *)
(* Game that differ.                                                       *)
(***************************************************************************)
calculate_rule_potential_score_main(g, dice, rule) ==
    LET has == [v \in 0..6 |-> Has(dice, v)]
        triples == {i \in 1..6 : Count(dice, i) >= 3}
        Paired(remaining_dice) == \E i \in 1..6 : Count(remaining_dice, i) >= 2
    IN  IF rule \in NumberRules THEN (rule + 1) * Count(dice, rule + 1) * 1000
        ELSE IF rule = CHOICE THEN SumSeq(dice) * 1000
        ELSE IF rule = FOUR_OF_A_KIND THEN
            IF \E i \in 1..6 : Count(dice, i) >= 4 THEN SumSeq(dice) * 1000 ELSE 0
        ELSE IF rule = YACHT /\ ~g.my_yacht_completed THEN
            IF \E i \in 1..6 : Count(dice, i) = 5 THEN 50000 ELSE 0
        ELSE IF rule = FULL_HOUSE THEN
            IF triples = {} THEN 0
            ELSE IF Paired(SelectSeq(dice, LAMBDA d : d # MinOf(triples)))
            THEN SumSeq(dice) * 1000 ELSE 0
        ELSE IF rule = SMALL_STRAIGHT THEN
            IF \/ has[1] /\ has[2] /\ has[3] /\ has[4]
               \/ has[2] /\ has[3] /\ has[4] /\ has[5]
               \/ has[3] /\ has[4] /\ has[5] /\ has[6]
            THEN 15000 ELSE 0
        ELSE IF rule = LARGE_STRAIGHT THEN
            IF \/ has[1] /\ has[2] /\ has[3] /\ has[4] /\ has[5]
               \/ has[2] /\ has[3] /\ has[4] /\ has[5] /\ has[6]
            THEN 30000 ELSE 0
        ELSE 0

(***************************************************************************)
(* SpecPredict: the score Game predicts for a placement and the score      *)
(* GameState records for it, in 1650.py and main.py.  The placement is     *)
(* drawn from all categories and all hands of five dice; the own pool is   *)
(* the hand, and my_yacht_completed is set together with a YACHT of 50000. *)
(* The one step is update_put.                                             *)
(***************************************************************************)
InitPredict ==
    /\ session \in {"1650", "main"}
    /\ put \in {DicePut(rule, dice) : rule \in Rules, dice \in [1..5 -> 1..6]}
    /\ \E done \in BOOLEAN :
         game = [Game EXCEPT
                   !.my_state.dice = put.dice,
                   !.my_state.rule_score[YACHT] = IF done THEN 50000 ELSE None,
                   !.my_yacht_completed = done]
    /\ dice_a = Rep(0, 5)
    /\ dice_b = Rep(0, 5)
    /\ my_bid = Bid("", 0)
    /\ command = ""
    /\ args = <<>>
    /\ exc = ""
    /\ judge = [round |-> 0, awards |-> 0, scores |-> 0, sets |-> 0]

UpdatePut ==
    /\ exc = ""
    /\ command = ""
    /\ \E up \in {update_put(game, put)} :
         /\ game' = up.g
         /\ exc' = up.exc
    /\ command' = "SCORE"
    /\ args' = <<>>
    /\ judge' = [judge EXCEPT !.scores = @ + 1]
    /\ UNCHANGED <<session, dice_a, dice_b, my_bid, put>>

NextPredict == UpdatePut

SpecPredict == InitPredict /\ [][NextPredict]_vars

\* the score Game expects from a placement
Predicted(g, dice, rule) ==
    IF session = "1650" THEN calculate_rule_potential_score(dice, rule)
    ELSE calculate_rule_potential_score_main(g, dice, rule)

\* C30: the score that update_put writes to the category board for a
\* placement of five dice 1..6 is the score calculate_rule_potential_score
\* gives for the same dice and category, in 1650.py and in main.py.
C30_PredictedIsRecorded ==
    [][(command' = "SCORE" /\ exc' = "")
         => game'.my_state.rule_score[put.rule] = Predicted(game, put.dice, put.rule)]_vars

(***************************************************************************)
(* SpecBlock: the first MaxRound rounds of 1650.py against an opponent     *)
(* that may also place YACHT, with five equal dice or, as a sacrifice,     *)
(* with a hand that scores 0.                                              *)
(***************************************************************************)
BlockSets == SpecSets \cup {DicePut(YACHT, H4), DicePut(YACHT, S6)}

InitBlock == InitMain({"1650"})

NextBlock ==
    \/ Roll(MaxRound, SpecRolls)
    \/ Get({"A", "B"}, SpecOppBids)
    \/ Score
    \/ Set(BlockSets)

SpecBlock == InitBlock /\ [][NextBlock]_vars

\* C22: a ROLL in which should_block_yacht asks for a block finds the
\* opponent's YACHT category open and a value v that the opponent holds at
\* least four times and that exactly one of the two groups contains, and the
\* bid is 5001 on that group.
C22_BlockOnlyWhileYachtOpen ==
    [][(judge'.round = judge.round + 1
        /\ should_block_yacht(game', dice_a', dice_b') # <<>>)
         => /\ game'.opp_state.rule_score[YACHT] = None
            /\ \E v \in 1..6 :
                 /\ Count(game'.opp_state.dice, v) >= 4
                 /\ Has(dice_a', v) # Has(dice_b', v)
                 /\ my_bid' = Bid(IF Has(dice_a', v) THEN "A" ELSE "B", 5001)]_vars

(***************************************************************************)
(* SpecLate: one complete game of 1650.py with the rolls and opponent      *)
(* placements of SpecGame, group A awarded in every round, and an opponent *)
(* that bids MaxBid or 9999 on B.                                          *)
(***************************************************************************)
LateOppBids == {Bid("B", MaxBid), Bid("B", 9999)}

InitLate == InitMain({"1650"})

NextLate ==
    \/ Roll(LastRollRound, {GameRoll(judge.round + 1)})
    \/ Get({"A"}, LateOppBids)
    \/ Score
    \/ Set(GameSets)

SpecLate == InitLate /\ [][NextLate]_vars

\* C25: each GET records the opponent's amount under the current round and
\* keeps the earlier entries; a ROLL of round 9 or later without a YACHT block
\* consults the amounts of the rounds before it and bids 0 if there are none,
\* and otherwise 0 or the lowest of them plus 1, at most 9999.
C25_LateBidFromHistory ==
    [][/\ judge'.awards = judge.awards + 1 =>
            /\ DOMAIN game'.opponent_bids = DOMAIN game.opponent_bids \cup {game.current_round}
            /\ game'.opponent_bids[game.current_round] = args'[3]
            /\ \A k \in DOMAIN game.opponent_bids \ {game.current_round} :
                 game'.opponent_bids[k] = game.opponent_bids[k]
       /\ (/\ judge'.round = judge.round + 1
           /\ game'.current_round >= 9
           /\ should_block_yacht(game', dice_a', dice_b') = <<>>)
            => /\ DOMAIN game'.opponent_bids = 1..(game'.current_round - 1)
               /\ \/ my_bid'.amount = 0
                  \/ \E k \in DOMAIN game'.opponent_bids :
                       /\ \A j \in DOMAIN game'.opponent_bids :
                            game'.opponent_bids[k] <= game'.opponent_bids[j]
                       /\ my_bid'.amount = Min2(9999, game'.opponent_bids[k] + 1)]_vars

\* C25 case: in round 9 or later, after opponent bids of MaxBid and of 9999,
\* 1650.py has bid the lowest of them plus 1.
C25_BidAboveLowest ==
    /\ command = "ROLL"
    /\ game.current_round >= 9
    /\ BidValues(game.opponent_bids) = {MaxBid, 9999}
    /\ my_bid.amount = MaxBid + 1

\* C23: after a ROLL test2.py has named group A exactly when its estimate of
\* the own pool with group A over the own open categories is greater than its
\* estimate of the own pool with group B, and group B otherwise.
C23_NamesBetterGroup ==
    (command = "ROLL" /\ session = "test2") =>
        \E pa \in calculate_potential_score(game.my_state.dice \o dice_a,
                                            get_unused_rules(game.my_state)),
           pb \in calculate_potential_score(game.my_state.dice \o dice_b,
                                            get_unused_rules(game.my_state)) :
            /\ my_bid.group = "A" <=> pa > pb
            /\ my_bid.group = "B" <=> pa <= pb

\* C23 case: test2.py has named A for a group A that is worth more to it.
C23_NamedAForHigherValue ==
    /\ command = "ROLL"
    /\ session = "test2"
    /\ my_bid.group = "A"
    /\ \A pa \in calculate_potential_score(game.my_state.dice \o dice_a,
                                           get_unused_rules(game.my_state)),
          pb \in calculate_potential_score(game.my_state.dice \o dice_b,
                                           get_unused_rules(game.my_state)) : pa > pb

\* the game with the own ledger moved so that the own total is diff above the
\* opponent's total
WithGap(g, diff) ==
    [g EXCEPT !.my_state.bid_score =
        @ + diff - (get_total_score_t2(g.my_state) - get_total_score_t2(g.opp_state))]

\* C24: for the groups of a ROLL of test2.py and the margin m between its two
\* estimates of the own pool with each group, calculate_bid offers m div 2 when
\* the own total is more than 20000 behind, m div 4 when the gap is at most
\* 20000 either way and m div 8 when it is more than 20000 ahead, if both
\* agents prefer the same group, and 0 if they prefer different groups; so
\* the amount never grows with the own lead and never exceeds m.
C24_AmountOrderedByGap ==
    (command = "ROLL" /\ session = "test2") =>
        \A pa \in calculate_potential_score(game.my_state.dice \o dice_a,
                                            get_unused_rules(game.my_state)),
           pb \in calculate_potential_score(game.my_state.dice \o dice_b,
                                            get_unused_rules(game.my_state)),
           oa \in calculate_potential_score(game.opp_state.dice \o dice_a,
                                            get_unused_rules(game.opp_state)),
           ob \in calculate_potential_score(game.opp_state.dice \o dice_b,
                                            get_unused_rules(game.opp_state)) :
            \E m \in {IF pa >= pb THEN pa - pb ELSE pb - pa} :
              \A behind \in calculate_bid_t2(WithGap(game, -20001), dice_a, dice_b),
                 level \in calculate_bid_t2(WithGap(game, -20000), dice_a, dice_b)
                            \cup calculate_bid_t2(WithGap(game, 20000), dice_a, dice_b),
                 ahead \in calculate_bid_t2(WithGap(game, 20001), dice_a, dice_b) :
                  /\ behind.amount >= level.amount
                  /\ level.amount >= ahead.amount
                  /\ behind.amount <= m
                  /\ my_bid.amount <= m
                  /\ IF (pa > pb) = (oa > ob)
                     THEN /\ behind.amount = m \div 2
                          /\ level.amount = m \div 4
                          /\ ahead.amount = m \div 8
                     ELSE behind.amount = 0

\* C24 case: test2.py, more than 20000 ahead, has bid an eighth of a margin.
C24_BidWhileAhead ==
    /\ command = "ROLL"
    /\ session = "test2"
    /\ get_total_score_t2(game.my_state) - get_total_score_t2(game.opp_state) > 20000
    /\ my_bid.amount > 0


(***************************************************************************)
(* main.py, the bid of Game.  A dictionary is a function on its keys; a    *)
(* call that raises ValueError (min of an empty bid history) returns None  *)
(* as the amount.                                                          *)
(***************************************************************************)
get_max_duplicate_count_main(g, dice_group) ==
    [num \in {n \in 1..6 : g.my_state.rule_score[n - 1] = None /\ Count(dice_group, n) >= 2}
        |-> Count(dice_group, num)]

\* max(d.values()) if d else 0
max_count_main(d) == IF DOMAIN d = {} THEN 0 ELSE MaxOf(BidValues(d))

\* the result is <<>> for None, else <<group, amount>>
should_block_yacht_main(g, dice_a_, dice_b_) ==
    LET opp_dice == g.opp_state.dice
        one_group(num) ==
            \/ Count(dice_a_, num) > 0 /\ Count(dice_b_, num) = 0
            \/ Count(dice_a_, num) = 0 /\ Count(dice_b_, num) > 0
        hits(dice_group) ==
            {num \in 1..6 : Count(opp_dice \o dice_group, num) >= 5 /\ one_group(num)}
        target(num) == <<(IF Count(dice_a_, num) > 0 THEN "A" ELSE "B"), 5001>>
    IN  IF g.opponent_yacht_completed THEN <<>>
        ELSE IF Len(opp_dice) < 4 THEN <<>>
        ELSE IF hits(dice_a_) # {} THEN target(MinOf(hits(dice_a_)))
        ELSE IF hits(dice_b_) # {} THEN target(MinOf(hits(dice_b_)))
        ELSE <<>>

\* the two open categories in index order, each hand of five positions for the
\* first and all the other dice for the second
calculate_highest_possible_score_for_last_turn(g, dice_group) ==
    LET combined_dice == g.my_state.dice \o dice_group
        n == Len(combined_dice)
        remaining_rules == {r \in Rules : g.my_state.rule_score[r] = None}
        rule1 == MinOf(remaining_rules)
        rule2 == MaxOf(remaining_rules)
        picks == {c \in SUBSET (1..n) : Cardinality(c) = 5}
        Part(c) == SelectSeq([i \in 1..n |-> <<i, combined_dice[i]>>], LAMBDA e : e[1] \in c)
        Dice(c) == [i \in 1..Cardinality(c) |-> Part(c)[i][2]]
    IN  IF Cardinality(remaining_rules) # 2 THEN 0
        ELSE MaxOf({0} \cup
                 {calculate_rule_potential_score_main(g, Dice(c), rule1)
                    + calculate_rule_potential_score_main(g, Dice((1..n) \ c), rule2)
                  : c \in picks})

\* total_value += ..., over a list of summands
RECURSIVE total(_)
total(s) == IF s = <<>> THEN 0 ELSE Head(s) + total(Tail(s))

calculate_needed_dice_value(g, dice_group, remaining_rules, is_opponent) ==
    LET combined_dice ==
            dice_group \o (IF is_opponent THEN g.opp_state.dice ELSE g.my_state.dice)
        straights4 == {1..4, 2..5, 3..6}
        straights5 == {1..5, 2..6}
        Within(straight) == \A v \in straight : Has(combined_dice, v)
        Value(rule) ==
            IF rule \in NumberRules THEN Count(dice_group, rule + 1) * (rule + 1)
            ELSE IF rule = CHOICE THEN SumSeq(dice_group)
            ELSE IF rule = FOUR_OF_A_KIND THEN
                total([i \in 1..3 |->
                    IF Count(combined_dice, i + 3) >= 4 THEN (i + 3) * 4 ELSE 0])
            ELSE IF rule = FULL_HOUSE THEN
                total([i \in 1..9 |->
                    LET num1 == 4 + ((i - 1) \div 3)
                        num2 == 4 + ((i - 1) % 3)
                    IN  IF /\ Count(combined_dice, num1) >= 3
                           /\ num2 # num1
                           /\ Count(combined_dice, num2) >= 2
                        THEN num1 * 3 + num2 * 2 ELSE 0])
            ELSE IF rule = SMALL_STRAIGHT THEN
                15 * Cardinality({s \in straights4 : Within(s)})
            ELSE IF rule = LARGE_STRAIGHT THEN
                30 * Cardinality({s \in straights5 : Within(s)})
            ELSE 50 * Cardinality({num \in 1..6 : Count(combined_dice, num) >= 5})
    IN  total([i \in 1..12 |-> IF (i - 1) \in remaining_rules THEN Value(i - 1) ELSE 0])

calculate_my_needed_dice_value(g, dice_group) ==
    calculate_needed_dice_value(g, dice_group,
        {r \in Rules : g.my_state.rule_score[r] = None}, FALSE)

calculate_opponent_needed_dice_value(g, dice_group) ==
    calculate_needed_dice_value(g, dice_group,
        {r \in Rules : g.opp_state.rule_score[r] = None}, TRUE)

\* the set of amounts the call can return
calculate_strategic_bid_amount_main(g, selected_dice) ==
    LET max_count == max_count_main(get_max_duplicate_count_main(g, selected_dice))
        dice_sum == SumSeq(selected_dice)
        r == g.current_round
        min_opponent_bid == MinOf(BidValues(g.opponent_bids))
        combined_max_count ==
            max_count_main(get_max_duplicate_count_main(g, g.my_state.dice \o selected_dice))
        my_needed_dice_value == calculate_my_needed_dice_value(g, selected_dice)
        opp_needed_dice_value == calculate_opponent_needed_dice_value(g, selected_dice)
    IN  IF r <= 1 THEN
            {IF max_count = 5 THEN 7999
             ELSE IF max_count = 4 THEN 4001
             ELSE IF max_count = 3 THEN 2001
             ELSE IF max_count = 2 THEN
                 (IF dice_sum >= 21 THEN 988 ELSE IF dice_sum >= 17 THEN 498 ELSE 2)
             ELSE IF dice_sum >= 20 THEN 3002 ELSE 1}
        ELSE IF r <= 3 THEN
            {IF max_count >= 4 THEN
                 (IF dice_sum >= 21 THEN 4501 ELSE IF dice_sum >= 17 THEN 3155 ELSE 2401)
             ELSE IF max_count = 3 THEN
                 (IF dice_sum >= 22 THEN 2301 ELSE IF dice_sum >= 19 THEN 1897 ELSE 1245)
             ELSE IF max_count = 2 THEN
                 (IF dice_sum >= 21 THEN 1135 ELSE IF dice_sum >= 16 THEN 874 ELSE 2)
             ELSE IF dice_sum >= 20 THEN 786 ELSE 487}
        ELSE IF DOMAIN g.opponent_bids = {} THEN {None}
        ELSE IF r <= 8 THEN
            IF g.my_yacht_completed THEN {0, Min2(511, Max2(0, min_opponent_bid - 1))}
            ELSE IF combined_max_count = 3 THEN {Min2(499, Max2(0, min_opponent_bid - 1))}
            ELSE IF combined_max_count = 4 THEN {Min2(511, Max2(0, min_opponent_bid + 1))}
            ELSE IF \/ Count(selected_dice, 6) >= 2
                    \/ Count(selected_dice, 5) >= 2
                    \/ Count(selected_dice, 6) >= 1 /\ Count(selected_dice, 5) >= 1
                 THEN {Min2(599, Max2(0, min_opponent_bid - 1))}
            ELSE {0}
        ELSE IF my_needed_dice_value > 0 THEN
            {IF my_needed_dice_value >= 51 THEN Min2(2999, Max2(min_opponent_bid, 1999))
             ELSE IF my_needed_dice_value >= 42 THEN Min2(1999, Max2(min_opponent_bid, 999))
             ELSE IF my_needed_dice_value >= 33 THEN Min2(999, Max2(min_opponent_bid, 99))
             ELSE Min2(1, Max2(min_opponent_bid, 2))}
        ELSE IF opp_needed_dice_value > 0 THEN
            {IF opp_needed_dice_value >= 10 THEN Min2(3499, Max2(min_opponent_bid, 2999))
             ELSE IF opp_needed_dice_value >= 5 THEN Min2(2499, Max2(min_opponent_bid, 1999))
             ELSE Min2(1499, Max2(min_opponent_bid, 999))}
        ELSE {0, Min2(2, Max2(0, min_opponent_bid + 1))}

calculate_final_round_bid(g, dice_a_, dice_b_) ==
    LET remaining_rules == {r \in Rules : g.my_state.rule_score[r] = None}
        value_a == calculate_needed_dice_value(g, dice_a_, remaining_rules, FALSE)
        value_b == calculate_needed_dice_value(g, dice_b_, remaining_rules, FALSE)
        by_sum == IF SumSeq(dice_a_) >= SumSeq(dice_b_) THEN "A" ELSE "B"
    IN  IF remaining_rules = {} THEN Bid(by_sum, 0)
        ELSE IF value_a > value_b THEN Bid("A", Min2(999, value_a * 999))
        ELSE IF value_b > value_a THEN Bid("B", Min2(999, value_b * 999))
        ELSE Bid(by_sum, Min2(999, Max2(value_a, value_b) * 999))

\* the group of the branches that compare duplicates, then sums
group_by_duplicates(g, dice_a_, dice_b_) ==
    LET max_count_a == max_count_main(get_max_duplicate_count_main(g, dice_a_))
        max_count_b == max_count_main(get_max_duplicate_count_main(g, dice_b_))
    IN  IF max_count_a >= max_count_b
        THEN (IF SumSeq(dice_a_) >= SumSeq(dice_b_) THEN "A" ELSE "B")
        ELSE "B"

\* the group of the branches that compare the needed values first
group_by_needed(g, dice_a_, dice_b_) ==
    LET value_a == calculate_my_needed_dice_value(g, dice_a_)
        value_b == calculate_my_needed_dice_value(g, dice_b_)
    IN  IF value_a > value_b THEN "A"
        ELSE IF value_b > value_a THEN "B"
        ELSE group_by_duplicates(g, dice_a_, dice_b_)

\* the set of bids the call can return
calculate_bid_main(g, dice_a_, dice_b_) ==
    LET rs == g.my_state.rule_score
        my_dice == g.my_state.dice
        With(group) ==
            {Bid(group, amount) : amount \in
                calculate_strategic_bid_amount_main(g, IF group = "A" THEN dice_a_ ELSE dice_b_)}
        score_a == calculate_highest_possible_score_for_last_turn(g, dice_a_)
        score_b == calculate_highest_possible_score_for_last_turn(g, dice_b_)
        block_result == should_block_yacht_main(g, dice_a_, dice_b_)
        count_1_a == Count(dice_a_, 1) + Count(my_dice, 1)
        count_2_a == Count(dice_a_, 2) + Count(my_dice, 2)
        count_1_b == Count(dice_b_, 1) + Count(my_dice, 1)
        count_2_b == Count(dice_b_, 2) + Count(my_dice, 2)
    IN  IF g.current_round = 13 THEN
            IF Cardinality({r \in Rules : rs[r] = None}) = 2 THEN
                With(IF score_a > score_b THEN "A"
                     ELSE IF score_b > score_a THEN "B"
                     ELSE IF SumSeq(dice_a_) >= SumSeq(dice_b_) THEN "A" ELSE "B")
            ELSE {calculate_final_round_bid(g, dice_a_, dice_b_)}
        ELSE IF block_result # <<>> THEN {Bid(block_result[1], block_result[2])}
        ELSE IF g.current_round >= 6 THEN
            IF rs[ONE] = None \/ rs[TWO] = None THEN
                With(IF rs[ONE] = None /\ count_1_a >= 4 /\ count_1_a > count_1_b THEN "A"
                     ELSE IF rs[ONE] = None /\ count_1_b >= 4 /\ count_1_b > count_1_a THEN "B"
                     ELSE IF rs[TWO] = None /\ count_2_a >= 4 /\ count_2_a > count_2_b THEN "A"
                     ELSE IF rs[TWO] = None /\ count_2_b >= 4 /\ count_2_b > count_2_a THEN "B"
                     ELSE group_by_needed(g, dice_a_, dice_b_))
            ELSE With(group_by_needed(g, dice_a_, dice_b_))
        ELSE With(group_by_duplicates(g, dice_a_, dice_b_))


(***************************************************************************)
(* SpecLast: the bid of main.py in its last rounds.  The state before the  *)
(* ROLL is drawn: five dice in the own pool and in the opponent's, the     *)
(* open categories of both sides (the others filled with 0), the bids seen *)
(* so far, and the round counter one or two short of 13.  The one step is  *)
(* the ROLL command.                                                       *)
(***************************************************************************)
L1 == <<1, 1, 1, 1, 1>>
L2 == <<1, 2, 3, 4, 6>>
L3 == <<6, 6, 6, 5, 5>>

LastPools == {S6, H5, L1, L2}
LastOpen ==
    {{ONE, FULL_HOUSE}, {FULL_HOUSE, YACHT}, {SIX, CHOICE}, {ONE, SIX},
     {SMALL_STRAIGHT, LARGE_STRAIGHT}, {CHOICE}, {FIVE, SIX, CHOICE}}
LastOppOpen == {{FIVE, CHOICE}, {ONE, YACHT}}
LastOppPools == {H5, L2}
LastHistories == {<<>>, [r \in 1..LastRollRound |-> 0], [r \in 1..LastRollRound |-> 2500]}
LastRounds == {LastRollRound - 1, LastRollRound}
LastRolls ==
    {[a |-> S6, b |-> L1], [a |-> L1, b |-> S6], [a |-> H1, b |-> H5],
     [a |-> H4, b |-> L3], [a |-> L3, b |-> L2], [a |-> H5, b |-> H4]}

Board(open) == [r \in Rules |-> IF r \in open THEN None ELSE 0]

InitLast ==
    /\ session = "main"
    /\ \E pool \in LastPools, open \in LastOpen,
          opp_pool \in LastOppPools, opp_open \in LastOppOpen,
          history \in LastHistories, round \in LastRounds :
         game = [Game EXCEPT
                   !.my_state.dice = pool,
                   !.my_state.rule_score = Board(open),
                   !.opp_state.dice = opp_pool,
                   !.opp_state.rule_score = Board(opp_open),
                   !.opponent_bids = history,
                   !.current_round = round]
    /\ dice_a = Rep(0, 5)
    /\ dice_b = Rep(0, 5)
    /\ my_bid = Bid("", 0)
    /\ command = ""
    /\ args = <<>>
    /\ put = DicePut(None, <<>>)
    /\ exc = ""
    /\ judge = [round |-> 0, awards |-> 0, scores |-> 0, sets |-> 0]

\* ROLL str_a str_b
RollLast ==
    /\ exc = ""
    /\ command = ""
    /\ game' = [game EXCEPT !.current_round = @ + 1]
    /\ \E pr \in LastRolls :
         /\ args' = <<pr.a, pr.b>>
         /\ dice_a' = pr.a
         /\ dice_b' = pr.b
         /\ \E b \in calculate_bid_main(game', pr.a, pr.b) :
              /\ my_bid' = IF b.amount = None THEN my_bid ELSE b
              /\ exc' = IF b.amount = None THEN "ValueError" ELSE ""
    /\ command' = "ROLL"
    /\ judge' = [judge EXCEPT !.round = @ + 1]
    /\ UNCHANGED <<session, put>>

NextLast == RollLast

SpecLast == InitLast /\ [][NextLast]_vars

\* the own open categories
Open(g) == {r \in Rules : g.my_state.rule_score[r] = None}

\* the best sum of two category scores over the ways to deal the dice of the
\* own pool and of a group into a hand of five for each of two categories
ExactSplit(g, dice_group) ==
    LET ten == g.my_state.dice \o dice_group
        Hand(c) == [i \in 1..5 |->
                      ten[CHOOSE p \in c : Cardinality({q \in c : q < p}) = i - 1]]
    IN  MaxOf({Evaluator(rules[1], Hand(c)) + Evaluator(rules[2], Hand((1..10) \ c)) :
                 rules \in {pair \in Open(g) \X Open(g) : pair[1] # pair[2]},
                 c \in {pick \in SUBSET (1..10) : Cardinality(pick) = 5}})

\* C26: with five dice in the own pool and exactly two own categories open,
\* calculate_highest_possible_score_for_last_turn of a group is the largest
\* sum of the two category scores, as calculate_score gives them, over all
\* ways to split the ten dice into a hand of five for each category; with
\* another number of open categories it is 0.
C26_SplitValueIsExact ==
    command = "ROLL" =>
        \A dice_group \in {dice_a, dice_b} :
            calculate_highest_possible_score_for_last_turn(game, dice_group)
                = IF Cardinality(Open(game)) = 2 THEN ExactSplit(game, dice_group) ELSE 0


\* the distance between the split values of the two groups of a roll
Margin(g, dice_a_, dice_b_) ==
    LET value_a == ExactSplit(g, dice_a_)
        value_b == ExactSplit(g, dice_b_)
    IN  IF value_a >= value_b THEN value_a - value_b ELSE value_b - value_a

\* C27: a ROLL of main.py that takes the round counter to 13 with exactly two
\* own categories open bids for the group with the larger split value of the
\* ten dice, and the amount grows with the margin between the two split
\* values: no roll with a margin at least as large, equal split values
\* included, could get a smaller amount in the same state.
C27_BidByExactMargin ==
    (command = "ROLL" /\ exc = "" /\ game.current_round = 13
       /\ Cardinality(Open(game)) = 2)
    => /\ ExactSplit(game, dice_a) > ExactSplit(game, dice_b) => my_bid.group = "A"
       /\ ExactSplit(game, dice_b) > ExactSplit(game, dice_a) => my_bid.group = "B"
       /\ \A pr \in LastRolls :
            Margin(game, pr.a, pr.b) >= Margin(game, dice_a, dice_b)
            => \A other \in calculate_bid_main(game, pr.a, pr.b) :
                 other.amount >= my_bid.amount


(***************************************************************************)
(* SpecDefer: the first MaxRound rounds of 1650.py and test2.py with rolls *)
(* of low dice, where few categories score 10000 or more.                  *)
(***************************************************************************)
DeferRolls == {[a |-> L1, b |-> L1], [a |-> L1, b |-> L2], [a |-> L2, b |-> H4]}
DeferSets == {DicePut(ONE, L1), DicePut(YACHT, L1), DicePut(CHOICE, L2)}

InitDefer == InitMain({"1650", "test2"})

NextDefer ==
    \/ Roll(MaxRound, DeferRolls)
    \/ Get({"A", "B"}, SpecOppBids)
    \/ Score
    \/ Set(DeferSets)

SpecDefer == InitDefer /\ [][NextDefer]_vars

\* the categories of a straight or of several equal dice
Deferrable == {YACHT, LARGE_STRAIGHT, SMALL_STRAIGHT, FOUR_OF_A_KIND, FULL_HOUSE}

\* C21: a SCORE with more than one own category open that fills YACHT,
\* LARGE_STRAIGHT, SMALL_STRAIGHT, FOUR_OF_A_KIND or FULL_HOUSE with 0 is made
\* only where no five dice of the pool score more than 0 under any open
\* category.
C21_IncompleteCategoryDeferred ==
    [][(/\ judge'.scores = judge.scores + 1
        /\ exc' = ""
        /\ Cardinality(get_unused_rules(game.my_state)) > 1
        /\ Len(game.my_state.dice) >= 5
        /\ put'.rule \in Deferrable
        /\ game'.my_state.rule_score[put'.rule] = 0)
         => ExhaustiveMax(game.my_state.dice, get_unused_rules(game.my_state)) = 0]_vars

====
